---- MODULE Spec2Model ----
(***************************************************************************)
(* A model of the raphael-rs solver engine: the bucketed search queue of   *)
(* the macro solver, the worker bridge that streams solver events, and the *)
(* quality upper-bound (QUB) solver.                                       *)
(***************************************************************************)
EXTENDS Integers, Sequences, FiniteSets, TLC

VARIABLES
    \* SearchQueue (search_queue.rs)
    queue,        \* [current, buckets, pareto_front]
    qstatus,      \* "ok" | "panicked" (index out of bounds in push)
    lastPop,      \* Option<SearchNode> of the last pop call: <<>> or <<node>>
    returned,     \* history: the nodes pop returned, in order
    pushed,       \* history: the nodes handed to push, in order
    \* Worker bridge (worker.rs)
    wpc,          \* "solving" | "done" | "panicked"
    chan,         \* the flume channel's queue
    rxAlive,      \* the Receiver has not been dropped
    received,     \* history: events taken from the channel, in order
    emitted,      \* history: events whose send succeeded, in order
    callbacks,    \* number of callback invocations made by solve so far
    \* Quality upper-bound solver (solver.rs) and the simulation it bounds
    settings,     \* the Settings of the run
    build,        \* "release" (integer overflow wraps) | "debug" (it panics)
    sim,          \* the current SimulationState
    solved,       \* QualityUpperBoundSolver::solved_states (the memo table)
    ub,           \* quality_upper_bound(sim), -1 before the first query
    query,        \* the last lookup: [front, missing, quality, result]
    hist,         \* history: [ub0, parent_ub, steps, wrapped]
    ustatus,      \* "idle" | "ok" | "panicked" | "diverged"
    solver,       \* Option: the value QualityUpperBoundSolver::new built
    \* GUI (app.rs)
    game_actions, \* MacroSolverApp::game_actions
    \* Score (utils/mod.rs)
    scores,       \* the Scores at hand: [a, b, c]
    score_out,    \* the result of the last operation on Scores
    \* Backtracking arena (utils/mod.rs)
    entries,      \* Backtracking::entries
    arena,        \* history: [returned, taken, seen, got]
    larena,       \* an arena of many entries: [build, len, index, pushes, status]
    \* Game data (game_data/lib.rs)
    crafter_config, \* CrafterConfiguration
    recipe_config,  \* the Recipe of the RecipeConfiguration
    game_settings,  \* the outcome of get_game_settings: [status, value]
    \* The refund of quality_upper_bound (solver.rs)
    refund,       \* Option: the state handed to ReducedState::from_state
    \* SearchTrace (search_queue.rs)
    tnode,        \* the SearchNode at hand: [trace], trace an Option<SearchTrace>
    ttaken,       \* history: the action sequences applied from the root, in order
    tout          \* Option: what SearchTrace::actions returned last

qvars == <<queue, qstatus, lastPop, returned, pushed>>
wvars == <<wpc, chan, rxAlive, received, emitted, callbacks>>
uvars == <<settings, build, sim, solved, ub, query, hist, ustatus, solver>>
gvars == <<game_actions>>
svars == <<scores, score_out>>
bvars == <<entries, arena, larena>>
dvars == <<crafter_config, recipe_config, game_settings>>
rvars == <<refund>>
tvars == <<tnode, ttaken, tout>>
xvars == <<game_actions, scores, score_out, entries, arena, larena,
           crafter_config, recipe_config, game_settings,
           refund, tnode, ttaken, tout>>
vars == <<queue, qstatus, lastPop, returned, pushed,
          wpc, chan, rxAlive, received, emitted, callbacks,
          settings, build, sim, solved, ub, query, hist, ustatus, solver,
          game_actions, scores, score_out, entries, arena, larena,
          crafter_config, recipe_config, game_settings,
          refund, tnode, ttaken, tout>>

(***************************************************************************)
(* Bounds of the model.                                                    *)
(***************************************************************************)
MaxCp == 2          \* settings.max_cp of the modelled Settings
MaxPush == 3        \* number of SearchQueue::push calls in one run
MaxCallbacks == 2   \* number of callback invocations of one solve
MaxEntries == 4     \* number of Backtracking::push calls on one arena
MaxTraceDepth == 4  \* number of search steps from the root to one node

(***************************************************************************)
(* SearchQueue                                                             *)
(***************************************************************************)
\* The equivalence keys (combo, durability, effects) nodes are drawn from.
KeyDurabilities == {10, 20}
Keys == {[combo |-> "None", durability |-> d, effects |-> 0] : d \in KeyDurabilities}

\* The (progress, quality) pairs nodes are drawn from.
NodeValues == {<<1, 0>>, <<0, 1>>, <<1, 1>>}

EmptyMap == << >>

ParetoKeyFrom(value) ==
    [combo |-> value.combo, durability |-> value.durability, effects |-> value.effects]

ParetoValueFrom(value) ==
    [progress |-> value.progress, quality |-> value.quality]

Dominate(a, b) == a.progress >= b.progress /\ a.quality >= b.quality

\* A front that admits an element without removing the ones it dominates.
FrontPushKeepDominated(front, x) ==
    IF \E i \in 1..Len(front) : Dominate(front[i], x)
    THEN [front |-> front, ok |-> FALSE]
    ELSE [front |-> Append(front, x), ok |-> TRUE]

\* A front that refuses an element that another one matches in one dimension.
FrontPushRefuseWeak(front, x) ==
    IF \E i \in 1..Len(front) :
           front[i].progress >= x.progress \/ front[i].quality >= x.quality
    THEN [front |-> front, ok |-> FALSE]
    ELSE [front |-> Append(SelectSeq(front, LAMBDA e : ~Dominate(x, e)), x), ok |-> TRUE]

\* pareto_front::ParetoFront::push: a dominated element is refused; otherwise
\* the elements it dominates are removed and it is added.
FrontPush(front, x) ==
    IF \E i \in 1..Len(front) : Dominate(front[i], x)
    THEN [front |-> front, ok |-> FALSE]
    ELSE [front |-> Append(SelectSeq(front, LAMBDA e : ~Dominate(x, e)), x), ok |-> TRUE]

\* HashMap::entry(key).or_default()
OrDefault(map, key) == IF key \in DOMAIN map THEN map[key] ELSE << >>

MapPut(map, key, v) == (key :> v) @@ map

SearchQueueNew(max_cp) ==
    [current |-> << >>,
     buckets |-> [i \in 1..(max_cp + 1) |-> EmptyMap],
     pareto_front |-> EmptyMap]

\* buckets[value.state.cp]: an index past the end of the vector panics.
PushInBounds(q, value) == value.cp >= 0 /\ value.cp + 1 <= Len(q.buckets)

SearchQueuePush(q, value) ==
    LET key == ParetoKeyFrom(value)
        i == value.cp + 1
        bucket == q.buckets[i]
        front == FrontPush(OrDefault(bucket, key), value).front
    IN [q EXCEPT !.buckets[i] = MapPut(bucket, key, front)]

\* The orders in which a HashMap with std's RandomState may iterate its keys.
RECURSIVE Perms(_)
Perms(S) ==
    IF S = {} THEN {<< >>}
    ELSE UNION {{<<k>> \o p : p \in Perms(S \ {k})} : k \in S}

IterationOrders == Perms(Keys)

\* A drain that makes every node of the front ready.
RECURSIVE DrainFrontAllReady(_, _, _)
DrainFrontAllReady(front, gfront, current) ==
    IF front = << >> THEN [gfront |-> gfront, current |-> current]
    ELSE DrainFrontAllReady(Tail(front), FrontPush(gfront, ParetoValueFrom(Head(front))).front,
                            Append(current, Head(front)))

\* for value in front { if global_front.push(..) { current.push(value) } }
RECURSIVE DrainFront(_, _, _)
DrainFront(front, gfront, current) ==
    IF front = << >> THEN [gfront |-> gfront, current |-> current]
    ELSE LET r == FrontPush(gfront, ParetoValueFrom(Head(front)))
         IN DrainFront(Tail(front), r.front,
                       IF r.ok THEN Append(current, Head(front)) ELSE current)

\* for (key, front) in bucket, the keys in the iteration order `order`.
RECURSIVE DrainBucket(_, _, _, _)
DrainBucket(order, bucket, pf, current) ==
    IF order = << >> THEN [pareto_front |-> pf, current |-> current]
    ELSE LET key == Head(order)
         IN IF key \notin DOMAIN bucket
            THEN DrainBucket(Tail(order), bucket, pf, current)
            ELSE LET r == DrainFront(bucket[key], OrDefault(pf, key), current)
                 IN DrainBucket(Tail(order), bucket, MapPut(pf, key, r.gfront), r.current)

\* A queue that drains its buckets from the front (buckets.remove(0)).
PoppedBucketIndexFirst(q) == 1

\* Which bucket buckets.pop() takes: the last one.
PoppedBucketIndex(q) == Len(q.buckets)

PopBucket(q, order) ==
    IF q.buckets = << >> THEN [q |-> q, ok |-> FALSE]
    ELSE LET i == PoppedBucketIndex(q)
             bucket == q.buckets[i]
             rest == [j \in 1..(Len(q.buckets) - 1) |->
                         IF j < i THEN q.buckets[j] ELSE q.buckets[j + 1]]
             r == DrainBucket(order, bucket, q.pareto_front, q.current)
         IN [q |-> [current |-> r.current, buckets |-> rest,
                    pareto_front |-> r.pareto_front],
             ok |-> TRUE]

\* A pop that drains one bucket only and gives up when it held no ready node.
SearchQueuePopOnce(q, order, steps) ==
    IF q.current # << >>
    THEN [q |-> [q EXCEPT !.current = SubSeq(q.current, 1, Len(q.current) - 1)],
          ret |-> <<q.current[Len(q.current)]>>, drained |-> steps]
    ELSE LET b == PopBucket(q, order)
             c == b.q.current
         IN IF b.ok /\ c # << >>
            THEN [q |-> [b.q EXCEPT !.current = SubSeq(c, 1, Len(c) - 1)],
                  ret |-> <<c[Len(c)]>>, drained |-> steps + 1]
            ELSE [q |-> b.q, ret |-> << >>, drained |-> steps]

\* SearchQueue::pop; `steps` counts the buckets drained by this call.
RECURSIVE SearchQueuePop(_, _, _)
SearchQueuePop(q, order, steps) ==
    IF q.current # << >>
    THEN [q |-> [q EXCEPT !.current = SubSeq(q.current, 1, Len(q.current) - 1)],
          ret |-> <<q.current[Len(q.current)]>>, drained |-> steps]
    ELSE LET b == PopBucket(q, order)
         IN IF b.ok THEN SearchQueuePop(b.q, order, steps + 1)
            ELSE [q |-> q, ret |-> << >>, drained |-> steps]

NodeOf(id, cp, key, pq) ==
    [id |-> id, cp |-> cp, combo |-> key.combo, durability |-> key.durability,
     effects |-> key.effects, progress |-> pq[1], quality |-> pq[2]]

QueueInit ==
    /\ queue = SearchQueueNew(MaxCp)
    /\ qstatus = "ok"
    /\ lastPop = << >>
    /\ returned = << >>
    /\ pushed = << >>

Push(cp, key, pq) ==
    /\ qstatus = "ok"
    /\ Len(pushed) < MaxPush
    /\ LET value == NodeOf(Len(pushed) + 1, cp, key, pq)
       IN /\ pushed' = Append(pushed, value)
          /\ IF PushInBounds(queue, value)
             THEN queue' = SearchQueuePush(queue, value) /\ qstatus' = "ok"
             ELSE queue' = queue /\ qstatus' = "panicked"
    /\ UNCHANGED <<lastPop, returned>>

Pop(order) ==
    /\ qstatus = "ok"
    /\ LET r == SearchQueuePop(queue, order, 0)
       IN /\ queue' = r.q
          /\ lastPop' = r.ret
          /\ returned' = returned \o r.ret
    /\ UNCHANGED <<qstatus, pushed>>

PushAny ==
    /\ \E cp \in 0..MaxCp, key \in Keys, pq \in NodeValues : Push(cp, key, pq)
    /\ UNCHANGED <<wvars, uvars, xvars>>

PopAny ==
    /\ \E order \in IterationOrders : Pop(order)
    /\ UNCHANGED <<wvars, uvars, xvars>>

(***************************************************************************)
(* Worker bridge                                                           *)
(***************************************************************************)
\* A channel that hands out the newest event first.
ChannelSendLifo(ch, event) == <<event>> \o ch

\* flume's unbounded channel is a FIFO queue: send appends at the tail.
ChannelSend(ch, event) == Append(ch, event)

\* The action lists a solve may report.
ActionLists == {<< >>, <<"BasicSynthesis">>}

WorkerInit ==
    /\ wpc = "solving"
    /\ chan = << >>
    /\ rxAlive = TRUE
    /\ received = << >>
    /\ emitted = << >>
    /\ callbacks = 0

\* self.tx.send(event).unwrap(): Err when the receiver is gone, and unwrap panics.
SendOrPanic(event, next) ==
    IF rxAlive
    THEN /\ chan' = ChannelSend(chan, event)
         /\ emitted' = Append(emitted, event)
         /\ wpc' = next
    ELSE /\ wpc' = "panicked"
         /\ UNCHANGED <<chan, emitted>>

SolutionCallback(actions) ==
    /\ wpc = "solving"
    /\ callbacks < MaxCallbacks
    /\ callbacks' = callbacks + 1
    /\ SendOrPanic([type |-> "IntermediateSolution", actions |-> actions], "solving")
    /\ UNCHANGED <<rxAlive, received>>

ProgressCallback ==
    /\ wpc = "solving"
    /\ callbacks < MaxCallbacks
    /\ callbacks' = callbacks + 1
    /\ SendOrPanic([type |-> "Progress", actions |-> << >>], "solving")
    /\ UNCHANGED <<rxAlive, received>>

\* solve returns Some(actions) or None; None is sent as FinalSolution(Vec::new()).
FinalEvent(final_solution) ==
    [type |-> "FinalSolution",
     actions |-> IF final_solution = << >> THEN << >> ELSE final_solution[1]]

SolveReturns(final_solution) ==
    /\ wpc = "solving"
    /\ SendOrPanic(FinalEvent(final_solution), "done")
    /\ UNCHANGED <<rxAlive, received, callbacks>>

Recv ==
    /\ rxAlive
    /\ chan # << >>
    /\ received' = Append(received, Head(chan))
    /\ chan' = Tail(chan)
    /\ UNCHANGED <<wpc, rxAlive, emitted, callbacks>>

DropReceiver ==
    /\ rxAlive
    /\ rxAlive' = FALSE
    /\ chan' = << >>
    /\ UNCHANGED <<wpc, received, emitted, callbacks>>

(***************************************************************************)
(* Simulation kernel (simulator crate): actions, effects, use_action       *)
(***************************************************************************)
U16Max == 65535
I8Max == 127

Min(a, b) == IF a <= b THEN a ELSE b
Max(a, b) == IF a >= b THEN a ELSE b

\* u16 arithmetic
SaturatingAdd16(a, b) == Min(U16Max, a + b)
SaturatingMul16(a, b) == Min(U16Max, a * b)
SaturatingSub(a, b) == Max(0, a - b)
WrappingAdd16(a, b) == (a + b) % (U16Max + 1)

\* i16 arithmetic: a result outside -2^15..2^15-1 panics in a debug build and
\* is taken modulo 2^16 in a release build.
I16Max == 32767
OverflowsI16(x) == x > I16Max \/ x < -(I16Max + 1)
WrapI16(x) == ((x + I16Max + 1) % (2 * (I16Max + 1))) - (I16Max + 1)

\* The division of integers, which truncates towards zero.
TruncDiv(a, b) ==
    LET q == (IF a < 0 THEN -a ELSE a) \div (IF b < 0 THEN -b ELSE b)
    IN IF (a < 0) # (b < 0) THEN -q ELSE q

\* The actions of the catalogue, in enumeration (id) order.
ActionSeq ==
    <<"BasicSynthesis", "BasicTouch", "MasterMend", "WasteNot", "Veneration",
      "StandardTouch", "ComboStandardTouch", "GreatStrides", "Innovation",
      "WasteNot2", "Manipulation", "ImmaculateMend", "TrainedPerfection">>

Actions == {ActionSeq[i] : i \in 1..Len(ActionSeq)}

CpCost(action) ==
    CASE action = "BasicSynthesis" -> 0
      [] action = "BasicTouch" -> 18
      [] action = "MasterMend" -> 88
      [] action = "WasteNot" -> 56
      [] action = "Veneration" -> 18
      [] action = "StandardTouch" -> 32
      [] action = "ComboStandardTouch" -> 18
      [] action = "GreatStrides" -> 32
      [] action = "Innovation" -> 18
      [] action = "WasteNot2" -> 98
      [] action = "Manipulation" -> 96
      [] action = "ImmaculateMend" -> 112
      [] action = "TrainedPerfection" -> 0

DurabilityCost(action) ==
    IF action \in {"BasicSynthesis", "BasicTouch", "StandardTouch", "ComboStandardTouch"}
    THEN 10 ELSE 0

\* action_factor of the progress and quality increments, in percent
ProgressFactor(action) == IF action = "BasicSynthesis" THEN 120 ELSE 0

QualityFactor(action) ==
    CASE action = "BasicTouch" -> 100
      [] action \in {"StandardTouch", "ComboStandardTouch"} -> 125
      [] OTHER -> 0

PROGRESS_ACTIONS == {"BasicSynthesis", "Veneration"}
QUALITY_ACTIONS ==
    {"BasicTouch", "StandardTouch", "ComboStandardTouch", "GreatStrides", "Innovation"}

DefaultEffects ==
    [inner_quiet |-> 0, great_strides |-> 0, innovation |-> 0, veneration |-> 0,
     muscle_memory |-> 0, waste_not |-> 0, manipulation |-> 0, guard |-> 0,
     trained_perfection |-> "Available"]

\* SimulationState::get_quality
GetQuality(state) == Min(state.unreliable_quality[1], state.unreliable_quality[2])

IsFinal(state, st) == state.progress >= st.max_progress \/ state.durability <= 0

\* progress_multiplier(effects), in percent
ProgressMultiplier(effects) ==
    100 + (IF effects.muscle_memory > 0 THEN 100 ELSE 0)
        + (IF effects.veneration > 0 THEN 50 ELSE 0)

ProgressIncrease(action, effects, st) ==
    (st.base_progress * ProgressMultiplier(effects) * ProgressFactor(action)) \div 10000

\* floor(base_quality * (100 + 10 * inner_quiet)% * (100 + 50 + 100)% * factor%),
\* the three percentages divided by 10, 50 and 25 so that the product stays
\* within 32 bits: 10 * 50 * 25 / 100^3 = 1 / 80.
QualityIncrease(action, effects, st) ==
    (st.base_quality * ((10 + effects.inner_quiet)
        * (2 + (IF effects.innovation > 0 THEN 1 ELSE 0)
             + (IF effects.great_strides > 0 THEN 2 ELSE 0))
        * (QualityFactor(action) \div 25))) \div 80

\* The first precondition of use_action that fails, "Ok" when none does.
ActionError(state, action, st) ==
    CASE action \notin st.allowed_actions -> "NotUnlocked"
      [] action = "ComboStandardTouch" /\ state.combo # "BasicTouch" -> "BadCombo"
      [] action = "TrainedPerfection" /\ state.effects.trained_perfection # "Available"
            -> "SingleUseExhausted"
      [] state.cp < CpCost(action) -> "InsufficientCP"
      [] state.durability <= 0 -> "InsufficientDurability"
      [] OTHER -> "Ok"

Decrement(n) == IF n > 0 THEN n - 1 ELSE 0

\* (5) every non-zero effect counter loses one turn
DecrementEffects(effects) ==
    [effects EXCEPT !.great_strides = Decrement(@), !.innovation = Decrement(@),
                    !.veneration = Decrement(@), !.muscle_memory = Decrement(@),
                    !.waste_not = Decrement(@), !.manipulation = Decrement(@),
                    !.guard = Decrement(@)]

\* (6) the action's own effect writes
ApplyActionEffects(effects, action) ==
    CASE action = "WasteNot" -> [effects EXCEPT !.waste_not = 4]
      [] action = "WasteNot2" -> [effects EXCEPT !.waste_not = 8]
      [] action = "Veneration" -> [effects EXCEPT !.veneration = 4]
      [] action = "GreatStrides" -> [effects EXCEPT !.great_strides = 3]
      [] action = "Innovation" -> [effects EXCEPT !.innovation = 4]
      [] action = "Manipulation" -> [effects EXCEPT !.manipulation = 8]
      [] action = "TrainedPerfection" -> [effects EXCEPT !.trained_perfection = "Active"]
      [] OTHER -> effects

\* (7) the combo the action leaves
NextCombo(action) == IF action = "BasicTouch" THEN "BasicTouch" ELSE "None"

\* The state a successful action leaves, steps (1) to (8).
ApplyAction(state, action, st) ==
    LET e0 == state.effects
        progress_increase == ProgressIncrease(action, e0, st)
        quality_increase == QualityIncrease(action, e0, st)
        free == e0.trained_perfection = "Active" /\ DurabilityCost(action) > 0
        durability_cost ==
            IF free THEN 0
            ELSE IF e0.waste_not > 0 THEN (DurabilityCost(action) + 1) \div 2
            ELSE DurabilityCost(action)
        restored ==
            CASE action = "MasterMend" -> 30
              [] action = "ImmaculateMend" -> st.max_durability
              [] OTHER -> 0
        durability ==
            IF restored > 0 THEN Min(st.max_durability, state.durability + restored)
            ELSE state.durability - durability_cost
        e1 == [e0 EXCEPT
                 !.muscle_memory = IF progress_increase > 0 THEN 0 ELSE @,
                 !.great_strides = IF quality_increase > 0 THEN 0 ELSE @,
                 !.inner_quiet = IF quality_increase > 0 THEN Min(10, @ + 1) ELSE @,
                 !.trained_perfection = IF free THEN "Unavailable" ELSE @]
        e2 == ApplyActionEffects(DecrementEffects(e1), action)
    IN [cp |-> state.cp - CpCost(action),
        durability |->
            IF durability > 0 /\ e2.manipulation > 0
            THEN Max(durability, Min(st.max_durability, durability + 5))
            ELSE durability,
        progress |-> SaturatingAdd16(state.progress, progress_increase),
        unreliable_quality |->
            <<SaturatingAdd16(state.unreliable_quality[1], quality_increase),
              SaturatingAdd16(state.unreliable_quality[2], quality_increase)>>,
        effects |-> e2,
        combo |-> NextCombo(action)]

\* use_action under the normal condition: Result<SimulationState, ActionError>
UseAction(state, action, st) ==
    LET err == ActionError(state, action, st)
    IN IF err = "Ok" THEN [ok |-> TRUE, err |-> err, state |-> ApplyAction(state, action, st)]
       ELSE [ok |-> FALSE, err |-> err, state |-> state]

(***************************************************************************)
(* ParetoFrontBuilder (utils/pareto_front_builder)                         *)
(***************************************************************************)
ParetoValueNew(first, second) == [first |-> first, second |-> second]

ValueDominates(x, y) == x.first >= y.first /\ x.second >= y.second

RECURSIVE SortByFirst(_)
SortByFirst(S) ==
    IF S = {} THEN << >>
    ELSE LET m == CHOOSE x \in S : \A y \in S : x.first <= y.first
         IN <<m>> \o SortByFirst(S \ {m})

Range(seq) == {seq[i] : i \in 1..Len(seq)}

\* The maximal elements of two fronts, values capped at the builder's clamps,
\* sorted by first ascending.
MergeFronts(a, b, max_first, max_second) ==
    LET capped == {ParetoValueNew(Min(v.first, max_first), Min(v.second, max_second)) :
                      v \in Range(a) \cup Range(b)}
        maximal == {v \in capped : ~\E w \in capped : w # v /\ ValueDominates(w, v)}
    IN SortByFirst(maximal)

BuilderPushEmpty(stack) == Append(stack, << >>)
BuilderPush(stack, front) == Append(stack, front)
BuilderPeek(stack) == stack[Len(stack)]

BuilderMerge(stack, max_first, max_second) ==
    LET n == Len(stack)
    IN Append(SubSeq(stack, 1, n - 2),
              MergeFronts(stack[n - 1], stack[n], max_first, max_second))

BuilderIsMax(stack, max_first, max_second) ==
    BuilderPeek(stack) = <<ParetoValueNew(max_first, max_second)>>

(***************************************************************************)
(* Reduced state (quality_upper_bound_solver/state)                        *)
(***************************************************************************)
\* ReducedState::from_state: the durability used is paid in CP, the refunded
\* effects are dropped, progress and quality are not part of the key.
ReducedFromState(state, base_durability_cost, waste_not_cost) ==
    [cp |-> WrapI16(state.cp
                    - ((I8Max - state.durability) \div 5) * base_durability_cost),
     effects |-> [state.effects EXCEPT !.manipulation = 0, !.waste_not = 0],
     combo |-> state.combo]

\* The subtraction of from_state leaves the range of the i16 cp.
FromStateOverflows(state, base_durability_cost, waste_not_cost) ==
    OverflowsI16(state.cp - ((I8Max - state.durability) \div 5) * base_durability_cost)

\* impl From<ReducedState> for SimulationState
StateFromReduced(reduced) ==
    [cp |-> reduced.cp, durability |-> I8Max, progress |-> 0,
     unreliable_quality |-> <<0, 0>>, effects |-> reduced.effects,
     combo |-> reduced.combo]

(***************************************************************************)
(* QualityUpperBoundSolver (solver.rs)                                     *)
(***************************************************************************)
SEARCH_ACTIONS == PROGRESS_ACTIONS \cup QUALITY_ACTIONS \cup {"TrainedPerfection"}

\* A constructor that looks at MasterMend alone.
BaseDurabilityCostMasterMendOnly(st) == CpCost("MasterMend") \div 6

\* QualityUpperBoundSolver::new: base_durability_cost; every `/` is the
\* division of i16, which truncates towards zero.
BaseDurabilityCost(st) ==
    LET c0 == TruncDiv(CpCost("MasterMend"), 6)
        c1 == IF "Manipulation" \in st.allowed_actions
              THEN Min(c0, TruncDiv(CpCost("Manipulation"), 8)) ELSE c0
    IN IF "ImmaculateMend" \in st.allowed_actions
       THEN Min(c1, TruncDiv(CpCost("ImmaculateMend"),
                             TruncDiv(st.max_durability, 5) - 1))
       ELSE c1

\* QualityUpperBoundSolver::new: waste_not_cost
WasteNotCost(st) ==
    IF "WasteNot2" \in st.allowed_actions
    THEN TruncDiv(CpCost("WasteNot2"), 8)
    ELSE TruncDiv(CpCost("WasteNot"), 4)

\* The divisor of the ImmaculateMend term: max_durability as i16 / 5 - 1
ImmaculateMendDivisor(st) == TruncDiv(st.max_durability, 5) - 1

\* QualityUpperBoundSolver::new panics when it divides by zero.
NewPanics(st) ==
    "ImmaculateMend" \in st.allowed_actions /\ ImmaculateMendDivisor(st) = 0

\* The value QualityUpperBoundSolver::new returns.
QualityUpperBoundSolverNew(st) ==
    [settings |-> st,
     base_durability_cost |-> BaseDurabilityCost(st),
     waste_not_cost |-> WasteNotCost(st),
     solved_states |-> EmptyMap]

\* ParetoFrontBuilder::new(max_progress, max_quality.saturating_mul(2))
MaxFirst(st) == st.max_progress
MaxSecond(st) == SaturatingMul16(st.max_quality, 2)

\* The actions solve_state iterates, in ascending id order.
SearchActionSeq(st) ==
    SelectSeq(ActionSeq, LAMBDA a : a \in SEARCH_ACTIONS \cap st.allowed_actions)

\* value.first += action_progress; value.second += action_quality (u16)
ShiftValue(value, action_progress, action_quality) ==
    ParetoValueNew(WrappingAdd16(value.first, action_progress),
                   WrappingAdd16(value.second, action_quality))

ShiftWraps(value, action_progress, action_quality) ==
    \/ value.first + action_progress > U16Max
    \/ value.second + action_quality > U16Max

\* pareto_front_builder.map(..): every value of the top front shifted.
BuilderMap(stack, action_progress, action_quality) ==
    [stack EXCEPT ![Len(stack)] =
        [i \in 1..Len(@) |-> ShiftValue(@[i], action_progress, action_quality)]]

\* An addition of that map leaves the 16-bit range.
MapWraps(stack, action_progress, action_quality) ==
    \E i \in 1..Len(BuilderPeek(stack)) :
        ShiftWraps(BuilderPeek(stack)[i], action_progress, action_quality)

\* The test that lets a child's own front take part (new_state.cp > 0).
ChildIsExpanded(new_state) == new_state.cp > 0

\* The test that lets the action be the last move of the craft: the sum is
\* an i16.
ActionCanFinish(new_state, action_progress, base_durability_cost) ==
    WrapI16(new_state.cp + base_durability_cost) >= 0 /\ action_progress # 0

\* The sum of that test leaves the range of i16.
FinishTestOverflows(new_state, base_durability_cost) ==
    OverflowsI16(new_state.cp + base_durability_cost)

RECURSIVE SolveState(_, _, _)
RECURSIVE SolveActions(_, _, _, _)
RECURSIVE BuildChildFront(_, _, _, _)

\* sv = [solved, stack, wrapped, overflowed, chain, depth, descending,
\* distinct, once, base, reused]: the memo table, the builder's stack, whether
\* a shift wrapped, whether an i16 sum or difference left its range, the
\* reduced states of the solve_state calls in progress (outermost first), the
\* deepest nesting so far, whether every nested call had less cp than its
\* caller, whether the states of every chain were distinct, whether every
\* insert into the memo table was the first for its key, the keys the table
\* held when the query began, and whether a front of one of those keys was
\* pushed as a child's front.
NewSolverState(memo) ==
    [solved |-> memo, stack |-> << >>, wrapped |-> FALSE, overflowed |-> FALSE,
     chain |-> << >>, depth |-> 0, descending |-> TRUE, distinct |-> TRUE,
     once |-> TRUE, base |-> DOMAIN memo, reused |-> FALSE]

\* map and merge of a child's front: the top front shifted by the action's
\* progress and quality and merged into the front below it; `wrapped` records
\* that a shift left the 16-bit range.
MapAndMerge(st, sv, action_progress, action_quality) ==
    [sv EXCEPT
       !.stack = BuilderMerge(BuilderMap(@, action_progress, action_quality),
                              MaxFirst(st), MaxSecond(st)),
       !.wrapped = @ \/ MapWraps(sv.stack, action_progress, action_quality)]

\* A child found in the table has its front merged without the shift.
ExpandChildCachedUnshifted(st, sv, new_state, action_progress, action_quality) ==
    CASE ~ChildIsExpanded(new_state) -> sv
      [] ChildIsExpanded(new_state) /\ new_state \in Range(sv.chain) ->
            [sv EXCEPT !.distinct = FALSE, !.descending = FALSE]
      [] ChildIsExpanded(new_state) /\ new_state \in DOMAIN sv.solved ->
            MapAndMerge(st, [sv EXCEPT !.stack = BuilderPush(@, sv.solved[new_state]),
                                       !.reused = @ \/ new_state \in sv.base],
                        0, 0)
      [] OTHER ->
            MapAndMerge(st, SolveState(st, sv, new_state),
                        action_progress, action_quality)

\* if new_state.cp > 0 { cached front pushed, or solve_state; map; merge }
\* A child that is a state of the calls in progress would be solved inside its
\* own solve_state, a recursion that never returns: the model records it in
\* `distinct` and goes no deeper.
ExpandChild(st, sv, new_state, action_progress, action_quality) ==
    CASE ~ChildIsExpanded(new_state) -> sv
      [] ChildIsExpanded(new_state) /\ new_state \in Range(sv.chain) ->
            [sv EXCEPT !.distinct = FALSE, !.descending = FALSE]
      [] ChildIsExpanded(new_state) /\ new_state \in DOMAIN sv.solved ->
            MapAndMerge(st, [sv EXCEPT !.stack = BuilderPush(@, sv.solved[new_state]),
                                       !.reused = @ \/ new_state \in sv.base],
                        action_progress, action_quality)
      [] OTHER ->
            MapAndMerge(st, SolveState(st, sv, new_state),
                        action_progress, action_quality)

\* A finish that appends the singleton to the top front without a merge.
FinishWithoutMerge(st, sv, new_state, action_progress, action_quality) ==
    [sv EXCEPT !.stack =
        IF ActionCanFinish(new_state, action_progress, BaseDurabilityCost(st))
        THEN [@ EXCEPT ![Len(@)] =
                 Append(@, ParetoValueNew(action_progress, action_quality))]
        ELSE @]

\* if new_state.cp + base_durability_cost >= 0 && action_progress != 0
\*    { push the singleton (action_progress, action_quality); merge }
FinishWithAction(st, sv, new_state, action_progress, action_quality) ==
    [sv EXCEPT !.stack =
        IF ActionCanFinish(new_state, action_progress, BaseDurabilityCost(st))
        THEN BuilderMerge(
                 BuilderPush(@, <<ParetoValueNew(action_progress, action_quality)>>),
                 MaxFirst(st), MaxSecond(st))
        ELSE @]

\* The ReducedState of the child of a successful use_action.
ChildKey(st, r) ==
    ReducedFromState(r.state, BaseDurabilityCost(st), WasteNotCost(st))

\* The i16 arithmetic on the child's cp overflows: in from_state, or in the
\* test of the finishing move.
ChildOverflows(st, r) ==
    \/ FromStateOverflows(r.state, BaseDurabilityCost(st), WasteNotCost(st))
    \/ FinishTestOverflows(ChildKey(st, r), BaseDurabilityCost(st))

\* if let Ok(new_state) = ...use_action(..) { .. }: action_progress and
\* action_quality are the child's progress and quality.
BuildFromResult(st, sv, r) ==
    IF r.ok
    THEN FinishWithAction(st,
             ExpandChild(st, [sv EXCEPT !.overflowed = @ \/ ChildOverflows(st, r)],
                         ChildKey(st, r), r.state.progress, GetQuality(r.state)),
             ChildKey(st, r), r.state.progress, GetQuality(r.state))
    ELSE sv

BuildChildFront(st, sv, state, action) ==
    BuildFromResult(st, sv, UseAction(StateFromReduced(state), action, st))

\* A loop that stops as soon as the top front holds a value of full progress.
SolveActionsStopAtProgress(st, sv, state, actions) ==
    CASE actions = << >> -> sv
      [] actions # << >> /\ BuilderPeek(sv.stack) # << >>
            /\ BuilderPeek(sv.stack)[Len(BuilderPeek(sv.stack))].first = MaxFirst(st) -> sv
      [] OTHER -> SolveActions(st, BuildChildFront(st, sv, state, Head(actions)),
                               state, Tail(actions))

\* for action in SEARCH_ACTIONS.intersection(allowed_actions).actions_iter()
\*    { build_child_front; if is_max() { break } }
\* When a call below has reached a state of the calls in progress it never
\* returns, and the loop goes no further.
SolveActions(st, sv, state, actions) ==
    CASE actions = << >> -> sv
      [] actions # << >> /\ ~sv.distinct -> sv
      [] actions # << >> /\ sv.distinct
            /\ BuilderIsMax(sv.stack, MaxFirst(st), MaxSecond(st)) -> sv
      [] OTHER -> SolveActions(st, BuildChildFront(st, sv, state, Head(actions)),
                               state, Tail(actions))

\* self.solved_states.insert(state, pareto_front_builder.peek()), and the
\* return of solve_state
InstallFront(sv, state) ==
    [sv EXCEPT !.solved = MapPut(@, state, BuilderPeek(sv.stack)),
               !.chain = SubSeq(@, 1, Len(@) - 1),
               !.once = @ /\ state \notin DOMAIN sv.solved]

\* The entry of solve_state: self.pareto_front_builder.push_empty()
EnterSolveState(sv, state) ==
    [sv EXCEPT !.stack = BuilderPushEmpty(@),
               !.chain = Append(@, state),
               !.depth = Max(@, Len(sv.chain) + 1),
               !.descending = @ /\ (sv.chain = << >> \/ state.cp < sv.chain[Len(sv.chain)].cp),
               !.distinct = @ /\ state \notin Range(sv.chain)]

SolveState(st, sv, state) ==
    InstallFront(SolveActions(st, EnterSolveState(sv, state), state,
                              SearchActionSeq(st)),
                 state)

\* The sums of the four `state.cp +=` of the refund, each on the i16 the
\* one before has left: manipulation, waste_not, durability / 5, and the token
\* of Trained Perfection when it is credited.
RefundSums(state, st) ==
    LET bdc == BaseDurabilityCost(st)
        s1 == state.cp
                + state.effects.manipulation * TruncDiv(CpCost("Manipulation"), 8)
        s2 == WrapI16(s1) + state.effects.waste_not * WasteNotCost(st)
        s3 == WrapI16(s2) + TruncDiv(state.durability, 5) * bdc
        s4 == WrapI16(s3) + 4 * bdc
    IN IF state.effects.trained_perfection # "Unavailable"
            /\ "TrainedPerfection" \in st.allowed_actions
       THEN <<s1, s2, s3, s4>>
       ELSE <<s1, s2, s3>>

\* One of the sums of the refund leaves the range of i16.
RefundOverflows(state, st) ==
    \E i \in 1..Len(RefundSums(state, st)) : OverflowsI16(RefundSums(state, st)[i])

\* The state handed to ReducedState::from_state: effects and durability
\* refunded as CP.
RefundedState(state, st) ==
    [state EXCEPT
       !.cp = WrapI16(RefundSums(state, st)[Len(RefundSums(state, st))]),
       !.effects.trained_perfection =
           IF Len(RefundSums(state, st)) = 4 THEN "Unavailable" ELSE @,
       !.durability = I8Max]

\* A search that always answers with the last index of the front.
BinarySearchLast(front, key, base, size) == Len(front)

\* slice::binary_search_by_key(&key, |value| value.first) on a front that is
\* not empty: Ok(i) and Err(i) both give i (1-based here).  The search halves
\* `size` and moves `base` to the middle unless the element there is greater
\* than the key, so of several elements equal to the key it answers with the
\* one this walk ends on; Err is the place the key would be inserted at.
RECURSIVE BinarySearch(_, _, _, _)
BinarySearch(front, key, base, size) ==
    IF size > 1
    THEN LET half == size \div 2
             mid == base + half
         IN BinarySearch(front, key,
                         IF front[mid].first > key THEN base ELSE mid,
                         size - half)
    ELSE IF front[base].first < key THEN base + 1 ELSE base

\* The lookup of quality_upper_bound in the memoised front.
LookupFront(front, missing_progress, current_quality, st) ==
    IF front = << >> THEN 0
    ELSE IF front[Len(front)].first < missing_progress THEN 0
    ELSE LET index == BinarySearch(front, missing_progress, 1, Len(front))
         IN Min(MaxSecond(st), SaturatingAdd16(front[index].second, current_quality))

\* ReducedState::from_state of the refunded state: the key of the memo table.
ReducedKey(st, state) ==
    ReducedFromState(RefundedState(state, st), BaseDurabilityCost(st), WasteNotCost(st))

\* A query that solves the state whether it is in the table or not.
SolveAlways(st, memo, reduced_state) ==
    SolveState(st, NewSolverState(memo), reduced_state)

\* if !self.solved_states.contains_key(&reduced_state) { solve_state; clear }
SolveIfAbsent(st, memo, reduced_state) ==
    IF reduced_state \in DOMAIN memo
    THEN NewSolverState(memo)
    ELSE SolveState(st, NewSolverState(memo), reduced_state)

\* The answer read from the memoised front.
LookupResult(st, sv, reduced_state, missing_progress, current_quality) ==
    [solved |-> sv.solved, wrapped |-> sv.wrapped, overflowed |-> sv.overflowed,
     key |-> reduced_state,
     calls |-> [depth |-> sv.depth, descending |-> sv.descending,
                distinct |-> sv.distinct, once |-> sv.once,
                returned |-> sv.chain = << >> /\ sv.distinct, reused |-> sv.reused],
     front |-> sv.solved[reduced_state],
     missing |-> missing_progress, quality |-> current_quality,
     result |-> LookupFront(sv.solved[reduced_state], missing_progress,
                            current_quality, st)]

\* The refund, or from_state of the refunded state, overflows.
KeyOverflows(st, state) ==
    \/ RefundOverflows(state, st)
    \/ FromStateOverflows(RefundedState(state, st), BaseDurabilityCost(st),
                          WasteNotCost(st))

\* quality_upper_bound: [solved, wrapped, overflowed, key, calls, front,
\* missing, quality, result]
QualityUpperBound(st, memo, state) ==
    [LookupResult(st, SolveIfAbsent(st, memo, ReducedKey(st, state)),
                  ReducedKey(st, state),
                  SaturatingSub(st.max_progress, state.progress),
                  GetQuality(state))
        EXCEPT !.overflowed = @ \/ KeyOverflows(st, state)]

(***************************************************************************)
(* The solver queried along the simulation of a craft                      *)
(***************************************************************************)
\* The Settings of the modelled runs: a recipe of ordinary size, one whose
\* progress figures are close to the top of the 16-bit range, one whose crafter
\* has Trained Perfection, and one of at most 4 durability with Immaculate
\* Mend, for which base_durability_cost is 112 / -1 = -112.
NormalSettings ==
    [max_cp |-> 120, max_durability |-> 20, max_progress |-> 240, max_quality |-> 400,
     base_progress |-> 100, base_quality |-> 100, job_level |-> 90,
     allowed_actions |-> {"BasicSynthesis", "BasicTouch", "MasterMend", "WasteNot",
                          "Manipulation"},
     adversarial |-> FALSE]

LargeProgressSettings ==
    [max_cp |-> 120, max_durability |-> 20, max_progress |-> 50000, max_quality |-> 400,
     base_progress |-> 25000, base_quality |-> 100, job_level |-> 90,
     allowed_actions |-> {"BasicSynthesis", "BasicTouch", "MasterMend"},
     adversarial |-> FALSE]

TrainedSettings ==
    [max_cp |-> 120, max_durability |-> 20, max_progress |-> 240, max_quality |-> 400,
     base_progress |-> 100, base_quality |-> 100, job_level |-> 100,
     allowed_actions |-> {"BasicSynthesis", "BasicTouch", "MasterMend",
                          "TrainedPerfection"},
     adversarial |-> FALSE]

FragileRecipeSettings ==
    [max_cp |-> I16Max - 67, max_durability |-> 4, max_progress |-> 240,
     max_quality |-> 400, base_progress |-> 100, base_quality |-> 100, job_level |-> 100,
     allowed_actions |-> {"BasicSynthesis", "GreatStrides", "ImmaculateMend"},
     adversarial |-> FALSE]

SettingsSet == {NormalSettings, LargeProgressSettings, TrainedSettings,
                FragileRecipeSettings}

\* The effects a state of a craft under `st` can carry: a counter is set only
\* when the action that sets it is allowed.
InitialEffects(st) ==
    {e \in {DefaultEffects,
            [DefaultEffects EXCEPT !.inner_quiet = 2],
            [DefaultEffects EXCEPT !.waste_not = 1, !.inner_quiet = 1],
            [DefaultEffects EXCEPT !.manipulation = 1]} :
        /\ e.waste_not > 0 => "WasteNot" \in st.allowed_actions
        /\ e.manipulation > 0 => "Manipulation" \in st.allowed_actions}

\* The CP of the states quality_upper_bound is called with. Where durability
\* costs CP little CP is left, which bounds the depth of the solver's
\* recursion; where a step of durability adds CP to the reduced state the
\* recursion climbs to the top of the i16 range, and the state has all the CP
\* of the crafter, 67 below that top.
InitialCp(st) ==
    IF BaseDurabilityCost(st) > 0 THEN {0, 24} ELSE {st.max_cp}

\* The states quality_upper_bound, a public function, is called with: states
\* in the course of a craft with no quality yet or with all of it, at full
\* durability or at the 10 left of it (the whole of it when the recipe has
\* less).  Those with all the quality and a durability that is a multiple of
\* 5 are the ones random_state of the solver's fuzz test draws; for a recipe
\* of less than 5 durability random_state draws none.
InitialStates(st) ==
    {[cp |-> cp, durability |-> d, progress |-> p, unreliable_quality |-> <<q, q>>,
      effects |-> e, combo |-> "None"] :
        cp \in InitialCp(st),
        d \in {Min(10, st.max_durability), st.max_durability},
        p \in {0, 50},
        q \in {0, st.max_quality},
        e \in InitialEffects(st)}

NoQuery == [key |-> << >>, depth |-> 0, reused |-> FALSE, front |-> << >>,
            missing |-> 0, quality |-> 0, result |-> 0]

NoCalls == [depth |-> 0, descending |-> TRUE, distinct |-> TRUE, once |-> TRUE,
            returned |-> TRUE]

NoHistory == [ub0 |-> -1, parent_ub |-> -1, lowest_ub |-> -1, steps |-> 0,
              wrapped |-> FALSE, overflowed |-> FALSE, calls |-> NoCalls]

\* The record of the solve_state calls of a run, one more query added.
MergeCalls(a, b) ==
    [depth |-> Max(a.depth, b.depth),
     descending |-> a.descending /\ b.descending,
     distinct |-> a.distinct /\ b.distinct,
     once |-> a.once /\ b.once,
     returned |-> a.returned /\ b.returned]

QubIdle ==
    /\ settings = NormalSettings
    /\ build = "release"
    /\ sim = CHOOSE s \in InitialStates(NormalSettings) : TRUE
    /\ solved = EmptyMap
    /\ ub = -1
    /\ query = NoQuery
    /\ hist = NoHistory
    /\ ustatus = "idle"
    /\ solver = << >>

\* A recipe small enough for the craft to reach full progress and the cap of
\* quality with the CP of the modelled states.
SmallRecipeSettings ==
    [max_cp |-> 120, max_durability |-> 20, max_progress |-> 100, max_quality |-> 50,
     base_progress |-> 100, base_quality |-> 100, job_level |-> 90,
     allowed_actions |-> {"BasicSynthesis", "BasicTouch", "StandardTouch", "MasterMend"},
     adversarial |-> FALSE]

SmallRecipeInit ==
    /\ settings = SmallRecipeSettings
    /\ build \in {"release", "debug"}
    /\ sim \in InitialStates(settings)
    /\ solved = EmptyMap
    /\ ub = -1
    /\ query = NoQuery
    /\ hist = NoHistory
    /\ ustatus = "ok"
    /\ solver = <<QualityUpperBoundSolverNew(settings)>>

QubInit ==
    /\ settings \in SettingsSet
    /\ build \in {"release", "debug"}
    /\ sim \in InitialStates(settings)
    /\ solved = EmptyMap
    /\ ub = -1
    /\ query = NoQuery
    /\ hist = NoHistory
    /\ ustatus = "ok"
    /\ solver = <<QualityUpperBoundSolverNew(settings)>>

\* One call of quality_upper_bound on `state`; an addition that overflows
\* panics in a debug build and wraps in a release build; a solve_state that
\* reaches a state of the calls in progress recurses without end and the call
\* never returns.
RecordQuery(q, first) ==
    IF (q.wrapped \/ q.overflowed) /\ build = "debug"
    THEN /\ ustatus' = "panicked"
         /\ hist' = [hist EXCEPT !.wrapped = @ \/ q.wrapped,
                                 !.overflowed = @ \/ q.overflowed]
         /\ UNCHANGED <<solved, ub, query>>
    ELSE IF ~q.calls.distinct
    THEN /\ ustatus' = "diverged"
         /\ hist' = [hist EXCEPT !.wrapped = @ \/ q.wrapped,
                                 !.overflowed = @ \/ q.overflowed,
                                 !.calls = MergeCalls(hist.calls, q.calls)]
         /\ UNCHANGED <<solved, ub, query>>
    ELSE /\ ustatus' = "ok"
         /\ solved' = q.solved
         /\ ub' = q.result
         /\ query' = [key |-> <<q.key>>, depth |-> q.calls.depth,
                      reused |-> q.calls.reused,
                      front |-> q.front, missing |-> q.missing,
                      quality |-> q.quality, result |-> q.result]
         /\ hist' = [ub0 |-> IF first THEN q.result ELSE hist.ub0,
                     parent_ub |-> ub,
                     lowest_ub |-> IF first THEN q.result
                                   ELSE Min(hist.lowest_ub, q.result),
                     steps |-> IF first THEN 0 ELSE hist.steps + 1,
                     wrapped |-> hist.wrapped \/ q.wrapped,
                     overflowed |-> hist.overflowed \/ q.overflowed,
                     calls |-> MergeCalls(hist.calls, q.calls)]

Query(state, first) == RecordQuery(QualityUpperBound(settings, solved, state), first)

\* The bound of the state the run starts from.
QueryInitial ==
    /\ ustatus = "ok"
    /\ ub = -1
    /\ Query(sim, TRUE)
    /\ UNCHANGED <<settings, build, sim, solver>>
    /\ UNCHANGED <<qvars, wvars, xvars>>

\* One action of the craft, and the bound of the child when it is not final
\* (the loop body of monotonic_fuzz_check).
Step(action) ==
    /\ ustatus = "ok"
    /\ ub >= 0
    /\ ~IsFinal(sim, settings)
    /\ LET r == UseAction(sim, action, settings)
       IN /\ r.ok
          /\ sim' = r.state
          /\ IF IsFinal(r.state, settings)
             THEN /\ hist' = [hist EXCEPT !.parent_ub = ub, !.steps = @ + 1]
                  /\ UNCHANGED <<solved, ub, query, ustatus>>
             ELSE Query(r.state, FALSE)
    /\ UNCHANGED <<settings, build, solver>>
    /\ UNCHANGED <<qvars, wvars, xvars>>

StepAny == \E action \in Actions : Step(action)

\* The solver asked about another state, as the search does for every node it
\* makes: the table filled by the earlier queries is the one at hand.
MaxRequeries == 1   \* number of queries after the first on one solver

QueryAnother ==
    /\ ustatus = "ok"
    /\ ub >= 0
    /\ hist.steps < MaxRequeries
    /\ \E state \in InitialStates(settings) :
          /\ sim' = state
          /\ Query(state, FALSE)
    /\ UNCHANGED <<settings, build, solver>>
    /\ UNCHANGED <<qvars, wvars, xvars>>

QubNext == QueryInitial \/ StepAny

(***************************************************************************)
(* The construction of the solver                                          *)
(***************************************************************************)
\* The values of max_durability and the unlockable actions the constructor
\* is run on.
ConstructorDurabilities == {1, 4, 5, 9, 10, 35, 40, 70, 80}
ConstructorUnlocks == {"Manipulation", "ImmaculateMend", "WasteNot2"}
ConstructorLevels == {1, 100}

ConstructorSettings ==
    {[NormalSettings EXCEPT !.max_durability = d, !.job_level = l,
                            !.allowed_actions = {"BasicSynthesis", "BasicTouch", "MasterMend"} \cup m] :
        d \in ConstructorDurabilities, l \in ConstructorLevels,
        m \in SUBSET ConstructorUnlocks}

QubUnbuilt ==
    /\ settings \in ConstructorSettings
    /\ build = "release"
    /\ sim = CHOOSE s \in InitialStates(NormalSettings) : TRUE
    /\ solved = EmptyMap
    /\ ub = -1
    /\ query = NoQuery
    /\ hist = NoHistory
    /\ ustatus = "idle"
    /\ solver = << >>

\* QualityUpperBoundSolver::new(settings)
New ==
    /\ ustatus = "idle"
    /\ IF NewPanics(settings)
       THEN ustatus' = "panicked" /\ solver' = solver
       ELSE ustatus' = "ok" /\ solver' = <<QualityUpperBoundSolverNew(settings)>>
    /\ UNCHANGED <<settings, build, sim, solved, ub, query, hist>>
    /\ UNCHANGED <<qvars, wvars, xvars>>

(***************************************************************************)
(* GUI (app.rs): the result of a solve                                     *)
(***************************************************************************)
\* What MacroSolver::solve may return: None (<< >>) or Some(actions) (<<actions>>).
SolveResults == {<< >>} \cup {<<a>> : a \in ActionLists}

\* Option::unwrap_or
UnwrapOr(option, default) == IF option = << >> THEN default ELSE option[1]

GuiInit == game_actions = << >>

(***************************************************************************)
(* Score (utils/mod.rs)                                                    *)
(***************************************************************************)
RADIX_BITS == 48

\* A constructor that keeps the unclamped quality.
ScoreNewUnclamped(quality, duration, steps, st) ==
    [quality |-> quality, duration |-> duration, steps |-> steps,
     quality_overflow |-> SaturatingSub(quality, st.max_quality)]

\* Score::new
ScoreNew(quality, duration, steps, st) ==
    [quality |-> Min(st.max_quality, quality), duration |-> duration, steps |-> steps,
     quality_overflow |-> SaturatingSub(quality, st.max_quality)]

\* Ord::cmp on unsigned integers
IntCmp(x, y) == IF x < y THEN "Less" ELSE IF x > y THEN "Greater" ELSE "Equal"

\* Ordering::then
Then(first, second) == IF first = "Equal" THEN second ELSE first

\* A comparison that ranks duration ascending.
ScoreCmpDurationAscending(self, other) ==
    Then(Then(Then(IntCmp(self.quality, other.quality),
                   IntCmp(self.duration, other.duration)),
              IntCmp(other.steps, self.steps)),
         IntCmp(self.quality_overflow, other.quality_overflow))

\* impl Ord for Score: cmp
ScoreCmp(self, other) ==
    Then(Then(Then(IntCmp(self.quality, other.quality),
                   IntCmp(other.duration, self.duration)),
              IntCmp(other.steps, self.steps)),
         IntCmp(self.quality_overflow, other.quality_overflow))

\* x ^ y on unsigned integers
RECURSIVE Xor(_, _)
Xor(x, y) ==
    IF x = 0 /\ y = 0 THEN 0
    ELSE ((x + y) % 2) + 2 * Xor(x \div 2, y \div 2)

\* The number of bits of x without its leading zeros.
RECURSIVE BitLength(_)
BitLength(x) == IF x = 0 THEN 0 ELSE 1 + BitLength(x \div 2)

\* leading_zeros of an unsigned integer of `width` bits
LeadingZeros(x, width) == width - BitLength(x)

\* Radix::radix_similarity of u16 and of u8: (self ^ other).leading_zeros()
U16RadixSimilarity(x, y) == LeadingZeros(Xor(x, y), 16)
U8RadixSimilarity(x, y) == LeadingZeros(Xor(x, y), 8)

\* A similarity that adds the offset of the steps to every field but quality.
RadixSimilarityOneOffset(self, other) ==
    IF self.quality # other.quality
    THEN U16RadixSimilarity(self.quality, other.quality)
    ELSE IF self.duration # other.duration
    THEN U8RadixSimilarity(self.duration, other.duration) + 24
    ELSE IF self.steps # other.steps
    THEN U8RadixSimilarity(self.steps, other.steps) + 24
    ELSE U16RadixSimilarity(self.quality_overflow, other.quality_overflow) + 32

\* A similarity that looks at the steps before the duration.
RadixSimilarityStepsFirst(self, other) ==
    IF self.quality # other.quality
    THEN U16RadixSimilarity(self.quality, other.quality)
    ELSE IF self.steps # other.steps
    THEN U8RadixSimilarity(self.steps, other.steps) + 16
    ELSE IF self.duration # other.duration
    THEN U8RadixSimilarity(self.duration, other.duration) + 24
    ELSE U16RadixSimilarity(self.quality_overflow, other.quality_overflow) + 32

\* impl radix_heap::Radix for Score: radix_similarity
RadixSimilarity(self, other) ==
    IF self.quality # other.quality
    THEN U16RadixSimilarity(self.quality, other.quality)
    ELSE IF self.duration # other.duration
    THEN U8RadixSimilarity(self.duration, other.duration) + 16
    ELSE IF self.steps # other.steps
    THEN U8RadixSimilarity(self.steps, other.steps) + 24
    ELSE U16RadixSimilarity(self.quality_overflow, other.quality_overflow) + 32

\* The inputs Scores are made from.
RawQualities == {399, 400, 401, 656}
ScoreDurations == {3, 4}
ScoreSteps == {1, 2}
ScoreSettings == {NormalSettings, [NormalSettings EXCEPT !.max_quality = U16Max]}

ScoreNames == {"a", "b", "c"}

NoScoreOutput == [op |-> "none"]

ScoreInit ==
    /\ scores = [a |-> ScoreNew(0, 0, 0, NormalSettings),
                 b |-> ScoreNew(0, 0, 0, NormalSettings),
                 c |-> ScoreNew(0, 0, 0, NormalSettings)]
    /\ score_out = NoScoreOutput

\* Score::new(quality, duration, steps, &settings); the new Score becomes a.
NewScore(quality, duration, steps, st) ==
    /\ scores' = [a |-> ScoreNew(quality, duration, steps, st),
                  b |-> scores.a, c |-> scores.b]
    /\ score_out' = [op |-> "new", score |-> ScoreNew(quality, duration, steps, st),
                     quality |-> quality, duration |-> duration, steps |-> steps,
                     max_quality |-> st.max_quality]

\* cmp on every pair of the Scores at hand
CompareScores ==
    /\ score_out' = [op |-> "cmp",
                     r |-> [x \in ScoreNames, y \in ScoreNames |->
                               ScoreCmp(scores[x], scores[y])]]
    /\ UNCHANGED scores

\* radix_similarity on every pair of the Scores at hand
SimilarScores ==
    /\ score_out' = [op |-> "sim",
                     r |-> [x \in ScoreNames, y \in ScoreNames |->
                               RadixSimilarity(scores[x], scores[y])]]
    /\ UNCHANGED scores

(***************************************************************************)
(* Backtracking arena (utils/mod.rs)                                       *)
(***************************************************************************)
\* Backtracking::SENTINEL is u32::MAX, which is the index of no entry; the
\* model writes it as the integer below zero.
SENTINEL == -1

\* The items stored in the arena.
ArenaItems == {"BasicSynthesis", "BasicTouch"}

Reverse(items) == [i \in 1..Len(items) |-> items[Len(items) + 1 - i]]

RECURSIVE WalkToRoot(_, _)

\* A loop that collects the item of every entry it visits twice.
WalkToRootTwice(es, index) ==
    IF index = SENTINEL THEN << >>
    ELSE <<es[index + 1].item, es[index + 1].item>>
             \o WalkToRoot(es, es[index + 1].parent)

\* The loop of get: items.push(entries[index].0); index = entries[index].1
WalkToRoot(es, index) ==
    IF index = SENTINEL THEN << >>
    ELSE <<es[index + 1].item>> \o WalkToRoot(es, es[index + 1].parent)

\* A get that yields the items in the order the loop collects them.
BacktrackingGetUnreversed(es, index) == WalkToRoot(es, index)

\* Backtracking::get: items.into_iter().rev()
BacktrackingGet(es, index) == Reverse(WalkToRoot(es, index))

\* A usize or u32 value v is written in two halves of 16 bits,
\* <<v \div 2^16, v % 2^16>>, so that lengths around 2^32 can be written.
Half == 65536

Halves(n) == <<n \div Half, n % Half>>

\* u32::MAX
SentinelHalves == <<Half - 1, Half - 1>>

\* The index the model uses for a u32 in halves: SENTINEL for u32::MAX.
IndexOf(x) == IF x = SentinelHalves THEN SENTINEL ELSE x[1] * Half + x[2]

\* entries.len() after entries.push(..)
LenAfterPush(len) == IF len[2] = Half - 1 THEN <<len[1] + 1, 0>> ELSE <<len[1], len[2] + 1>>

\* len as u32: the low 32 bits of the usize
AsU32(len) == <<len[1] % Half, len[2]>>

\* x - 1 in u32: at 0 the subtraction overflows, which wraps to u32::MAX in a
\* release build and panics in a debug build.
U32MinusOne(x) ==
    IF x = <<0, 0>> THEN [overflow |-> TRUE, value |-> SentinelHalves]
    ELSE [overflow |-> FALSE,
          value |-> IF x[2] = 0 THEN <<x[1] - 1, Half - 1>> ELSE <<x[1], x[2] - 1>>]

\* self.entries.len() as u32 - 1, after the push onto an arena of len entries
PushIndex(len) == U32MinusOne(AsU32(LenAfterPush(len)))

\* A push that detaches the entries already present from their parents.
BacktrackingPushDetaching(es, item, parent) ==
    [entries |-> Append([k \in 1..Len(es) |-> [es[k] EXCEPT !.parent = SENTINEL]],
                        [item |-> item, parent |-> parent]),
     index |-> Len(es) + 1 - 1]

\* Backtracking::push: entries.push((item, parent)); entries.len() as u32 - 1
BacktrackingPush(es, item, parent) ==
    [entries |-> Append(es, [item |-> item, parent |-> parent]),
     index |-> IndexOf(PushIndex(Halves(Len(es))).value)]

NoGet == [index |-> SENTINEL, items |-> << >>]

\* Backtracking::new, and the history of the calls made on the arena:
\* returned[k] is the index the k-th push returned, taken[k] the items taken
\* on the way to the k-th entry, seen[k] what get yielded for it right after
\* its push, got the last call of get.
ArenaInit ==
    /\ entries = << >>
    /\ arena = [returned |-> << >>, taken |-> << >>, seen |-> << >>, got |-> NoGet]

\* The parents a caller may pass: SENTINEL or an index an earlier push returned.
ArenaParents == {SENTINEL} \cup {arena.returned[k] : k \in 1..Len(arena.returned)}

PathTo(parent) == IF parent = SENTINEL THEN << >> ELSE arena.taken[parent + 1]

ArenaPush(item, parent) ==
    /\ Len(entries) < MaxEntries
    /\ LET r == BacktrackingPush(entries, item, parent)
       IN /\ entries' = r.entries
          /\ arena' = [arena EXCEPT
                 !.returned = Append(@, r.index),
                 !.taken = Append(@, Append(PathTo(parent), item)),
                 !.seen = Append(@, BacktrackingGet(r.entries, r.index))]
          /\ UNCHANGED larena

ArenaGet(index) ==
    /\ arena' = [arena EXCEPT
           !.got = [index |-> index, items |-> BacktrackingGet(entries, index)]]
    /\ UNCHANGED <<entries, larena>>

(***************************************************************************)
(* An arena of many entries (utils/mod.rs)                                 *)
(***************************************************************************)
\* Only the number of entries is kept: len is entries.len() in halves, index
\* the Option of the index the last push returned, pushes the pushes made.
NearFull == 40        \* how far below 2^32 entries the runs start
MaxLongPushes == 3    \* number of Backtracking::push calls of one run

\* The lengths the runs start from: the new arena, and arenas that have
\* taken all but a few of 2^32 pushes.
LongArenaLengths ==
    {<<0, 0>>} \cup {<<Half - 1, lo>> : lo \in (Half - NearFull)..(Half - 1)}

LongArenaIdle ==
    larena = [build |-> "release", len |-> <<0, 0>>, index |-> << >>, pushes |-> 0,
              status |-> "idle"]

LongArenaInit ==
    \E b \in {"release", "debug"}, len \in LongArenaLengths :
        larena = [build |-> b, len |-> len, index |-> << >>, pushes |-> 0,
                  status |-> "ok"]

\* Backtracking::push on the arena of many entries.
LongArenaPush ==
    /\ larena.status = "ok"
    /\ larena.pushes < MaxLongPushes
    /\ LET r == PushIndex(larena.len)
       IN IF r.overflow /\ larena.build = "debug"
          THEN larena' = [larena EXCEPT !.len = LenAfterPush(@),
                                        !.status = "panicked"]
          ELSE larena' = [larena EXCEPT !.len = LenAfterPush(@),
                                        !.index = <<r.value>>,
                                        !.pushes = @ + 1]
    /\ UNCHANGED <<qvars, wvars, uvars, gvars, svars, entries, arena, dvars, rvars, tvars>>

(***************************************************************************)
(* Game data (game_data/lib.rs)                                            *)
(***************************************************************************)
LEVELS ==
    <<1, 2, 3, 4, 5, 6, 7, 8, 9, 10, 11, 12, 13, 14, 15, 16, 17, 18, 19, 20, 21, 22, 23, 24, 25, 26,
      27, 28, 29, 30, 31, 32, 33, 34, 35, 36, 37, 38, 39, 40, 41, 42, 43, 44, 45, 46, 47, 48, 49, 50,
      120, 125, 130, 133, 136, 139, 142, 145, 148, 150, 260, 265, 270, 273, 276, 279, 282, 285, 288,
      290, 390, 395, 400, 403, 406, 409, 412, 415, 418, 420, 517, 520, 525, 530, 535, 540, 545, 550,
      555, 560>>

\* LEVELS[job_level as usize - 1] is inside the table.
LevelInTable(job_level) == job_level - 1 >= 0 /\ job_level - 1 < Len(LEVELS)

\* The recipe's level is not below the crafter's: the recipe's modifiers apply.
Underlevelled(recipe, crafter) == LEVELS[crafter.job_level] <= recipe.recipe_level

\* f64: a significand of 53 binary digits, results rounded to the nearest
\* value, ties to the even significand.  A non-negative f64 below 2^31 is
\* written as [int, frac]: its integer part and the digits after the point
\* in base 256 (bytes of eight bits), the most significant first.
F64_MANTISSA_DIGITS == 53

\* The number of zero bits between the point and the first one bit.
ZeroBitsBeforeOne(frac) ==
    IF \A i \in 1..Len(frac) : frac[i] = 0 THEN 8 * Len(frac)
    ELSE LET first == CHOOSE i \in 1..Len(frac) :
                          frac[i] # 0 /\ \A j \in 1..(i - 1) : frac[j] = 0
         IN 8 * (first - 1) + 8 - BitLength(frac[first])

\* The number of bits after the point that the significand holds (22 or
\* more, the integer part being below 2^31).
KeptBits(int, frac) ==
    IF int > 0 THEN F64_MANTISSA_DIGITS - BitLength(int)
    ELSE ZeroBitsBeforeOne(frac) + F64_MANTISSA_DIGITS

\* digits plus one in the last place: the digits and the carry out of them.
IncDigits(digits) ==
    IF \A i \in 1..Len(digits) : digits[i] = 255
    THEN [digits |-> [i \in 1..Len(digits) |-> 0], carry |-> 1]
    ELSE LET last == CHOOSE i \in 1..Len(digits) :
                         digits[i] # 255 /\ \A j \in (i + 1)..Len(digits) : digits[j] = 255
         IN [digits |-> [i \in 1..Len(digits) |->
                            IF i < last THEN digits[i]
                            ELSE IF i = last THEN digits[i] + 1 ELSE 0],
             carry |-> 0]

\* digits plus unit in the last digit, which is a multiple of unit.
AddUnit(digits, unit) ==
    LET n == Len(digits)
        up == IncDigits(SubSeq(digits, 1, n - 1))
    IN IF digits[n] + unit < 256
       THEN [digits |-> [digits EXCEPT ![n] = @ + unit], carry |-> 0]
       ELSE [digits |-> Append(up.digits, 0), carry |-> up.carry]

\* The f64 nearest to int + 0.frac (+ something below the last digit of
\* frac, when sticky): round to nearest, ties to even.
RoundF64(int, frac, sticky) ==
    LET keep == KeptBits(int, frac)
    IN IF 8 * Len(frac) <= keep
       THEN [int |-> int, frac |-> frac]
       ELSE LET whole == keep \div 8
                part == keep % 8
                digit == frac[whole + 1]
                unit == 2 ^ (8 - part)
                guard == (digit \div (unit \div 2)) % 2
                below == \/ sticky
                         \/ digit % (unit \div 2) # 0
                         \/ \E i \in (whole + 2)..Len(frac) : frac[i] # 0
                odd == IF part = 0 THEN frac[whole] % 2 = 1
                       ELSE (digit \div unit) % 2 = 1
                kept == Append(SubSeq(frac, 1, whole), (digit \div unit) * unit)
                up == AddUnit(kept, unit)
            IN IF guard = 1 /\ (below \/ odd)
               THEN [int |-> int + up.carry, frac |-> up.digits]
               ELSE [int |-> int, frac |-> kept]

\* The digits that decide the rounding of a quotient: the quotient of a
\* dividend of at least 1 by a divisor below 2^23 has fewer than 23 zero bits
\* before its first one bit, then 53 bits and the bit that rounds them.
QuotientDigits == (23 + F64_MANTISSA_DIGITS + 1 + 7) \div 8

\* Long division of (r + 0.frac) by b for r < b < 2^23: the digits i..n of
\* the quotient after the point, and the remainder.
RECURSIVE DivDigits(_, _, _, _, _)
DivDigits(r, b, frac, i, n) ==
    IF i > n THEN [digits |-> << >>, r |-> r]
    ELSE LET t == r * 256 + (IF i <= Len(frac) THEN frac[i] ELSE 0)
             lower == DivDigits(t % b, b, frac, i + 1, n)
         IN [digits |-> <<t \div b>> \o lower.digits, r |-> lower.r]

\* x / (b as f64)
F64Div(x, b) ==
    LET quotient == DivDigits(x.int % b, b, x.frac, 1, QuotientDigits)
    IN RoundF64(x.int \div b, quotient.digits, quotient.r # 0)

\* 0.frac * m: the digits i.. of the product after the point, and the carry
\* out of them.
RECURSIVE MulDigits(_, _, _)
MulDigits(frac, m, i) ==
    IF i > Len(frac) THEN [digits |-> << >>, carry |-> 0]
    ELSE LET lower == MulDigits(frac, m, i + 1)
             t == frac[i] * m + lower.carry
         IN [digits |-> <<t % 256>> \o lower.digits, carry |-> t \div 256]

\* x * (m as f64)
F64Mul(x, m) ==
    LET product == MulDigits(x.frac, m, 1)
    IN RoundF64(x.int * m + product.carry, product.digits, FALSE)

\* x + k for a whole k (2.0, 35.0)
F64Add(x, k) == RoundF64(x.int + k, x.frac, FALSE)

\* n as f64, exact for a u16 and a u32
AsF64(n) == [int |-> n, frac |-> << >>]

\* x.floor() as u32
FloorAsU32(x) == x.int

\* stat as f64 * 10.0 / div as f64 + offset, then * modifier as f64 / 100.0
\* when underlevelled, then .floor() as u32: every operation rounds to f64
\* (stat * 10.0 is exact).  For 0 < div < 2^23 and values below 2^31.
BaseValue(stat, div, offset, modifier, underlevelled) ==
    LET base == F64Add(F64Div(AsF64(stat * 10), div), offset)
    IN IF underlevelled
       THEN FloorAsU32(F64Div(F64Mul(base, modifier), 100))
       ELSE FloorAsU32(base)

\* ActionMask::from_level(level, manipulation)
ActionMaskFromLevel(level, manipulation) ==
    [from_level |-> level, manipulation |-> manipulation]

\* get_game_settings, for a job level inside the table; `cp as i16` takes a
\* u16 of 32768 or more to a negative max_cp.
GetGameSettings(recipe, crafter) ==
    [max_cp |-> WrapI16(crafter.cp),
     max_durability |-> recipe.durability,
     max_progress |-> recipe.progress,
     max_quality |-> recipe.quality,
     base_progress |-> BaseValue(crafter.craftsmanship, recipe.progress_div, 2,
                                 recipe.progress_mod, Underlevelled(recipe, crafter)),
     base_quality |-> BaseValue(crafter.control, recipe.quality_div, 35,
                                recipe.quality_mod, Underlevelled(recipe, crafter)),
     job_level |-> crafter.job_level,
     allowed_actions |-> ActionMaskFromLevel(crafter.job_level, crafter.manipulation)]

\* impl Default for MacroSolverApp: crafter_config
DefaultCrafter ==
    [craftsmanship |-> 3858, control |-> 4057, cp |-> 687, job_level |-> 90,
     manipulation |-> TRUE]

\* The job levels get_game_settings is called with.
JobLevels == {1, 50, 51, 90, 91, 100}

CrafterConfigs ==
    {[DefaultCrafter EXCEPT !.job_level = l, !.craftsmanship = c, !.control = q,
                            !.manipulation = m] :
        l \in JobLevels, c \in {88, 100, 3858}, q \in {170, 4057}, m \in BOOLEAN}
        \cup {[DefaultCrafter EXCEPT !.job_level = l, !.cp = 40000] : l \in JobLevels}

\* Recipes of several levels; the divisors and modifiers are positive.  With
\* the divisors 50 every f64 operation is far from a rounding boundary; with
\* 120 and 140 the exact values (88 * 10 / 120 + 2) * 75 / 100 = 7 and
\* (170 * 10 / 140 + 35) * 70 / 100 = 33 are whole and their f64 values are
\* not.
Recipes ==
    {[recipe_level |-> rl, progress |-> 1000, quality |-> 2000, durability |-> 80,
      progress_div |-> 50, progress_mod |-> 80, quality_div |-> 50, quality_mod |-> 70] :
        rl \in {1, 120, 560}}
    \cup {[recipe_level |-> 690, progress |-> 1000, quality |-> 2000, durability |-> 80,
           progress_div |-> 120, progress_mod |-> 75, quality_div |-> 140,
           quality_mod |-> 70]}

NotCalled == [status |-> "none", value |-> << >>]

GameDataIdle ==
    /\ crafter_config = DefaultCrafter
    /\ recipe_config = CHOOSE r \in Recipes : r.recipe_level = 560
    /\ game_settings = NotCalled

GameDataInit ==
    /\ crafter_config \in CrafterConfigs
    /\ recipe_config \in Recipes
    /\ game_settings = NotCalled

\* The outcome of get_game_settings: the Settings, or the panic of the
\* lookup in LEVELS.
GameSettingsOutcome(recipe, crafter) ==
    IF LevelInTable(crafter.job_level)
    THEN [status |-> "returned", value |-> <<GetGameSettings(recipe, crafter)>>]
    ELSE [status |-> "panicked", value |-> << >>]

\* game_data::get_game_settings(recipe_config, crafter_config)
CallGetGameSettings ==
    /\ game_settings.status = "none"
    /\ game_settings' = GameSettingsOutcome(recipe_config, crafter_config)
    /\ UNCHANGED <<crafter_config, recipe_config>>

(***************************************************************************)
(* GUI (app.rs): the widgets of MacroSolverApp::update                     *)
(***************************************************************************)
\* The values the user drags a field to, and the states of the checkbox.
DraggedJobLevels == {0, 50, 90, 100}
DraggedCraftsmanship == {88, 3858}
DraggedControl == {170, 4057}
DraggedCp == {687, 40000}

\* DragValue::clamp_range(RangeInclusive::new(1, 90))
ClampJobLevel(value) == IF value < 1 THEN 1 ELSE IF value > 90 THEN 90 ELSE value

\* draw_configuration_widget: the DragValues and the checkbox write the
\* fields of crafter_config; the job level is kept within 1..=90.
ConfigurationEdited ==
    /\ \/ \E value \in DraggedCraftsmanship :
             crafter_config' = [crafter_config EXCEPT !.craftsmanship = value]
       \/ \E value \in DraggedControl :
             crafter_config' = [crafter_config EXCEPT !.control = value]
       \/ \E value \in DraggedCp :
             crafter_config' = [crafter_config EXCEPT !.cp = value]
       \/ \E value \in DraggedJobLevels :
             crafter_config' = [crafter_config EXCEPT !.job_level = ClampJobLevel(value)]
       \/ \E checked \in BOOLEAN :
             crafter_config' = [crafter_config EXCEPT !.manipulation = checked]
    /\ UNCHANGED <<recipe_config, game_settings, game_actions>>

\* draw_recipe_select_widget: the button of an item sets recipe_config.
RecipeClicked(recipe) ==
    /\ recipe_config' = recipe
    /\ UNCHANGED <<crafter_config, game_settings, game_actions>>

\* if ui.button("Solve").clicked() {
\*     let game_settings = get_game_settings(self.recipe_config, self.crafter_config);
\*     self.game_actions = MacroSolver::new(game_settings).solve(..).unwrap_or(Vec::new()) }
SolveClicked(final_solution) ==
    /\ game_settings' = GameSettingsOutcome(recipe_config, crafter_config)
    /\ game_actions' = IF LevelInTable(crafter_config.job_level)
                       THEN UnwrapOr(final_solution, << >>)
                       ELSE game_actions
    /\ UNCHANGED <<crafter_config, recipe_config>>

(***************************************************************************)
(* The refund of quality_upper_bound                                       *)
(***************************************************************************)
\* The Settings the refund is computed under: Manipulation, Waste Not II and
\* Trained Perfection unlocked or not, for a crafter of 120 CP on a recipe of
\* 20 durability and for one of i16::MAX CP on a recipe of 70 durability.
RefundUnlocks == {"Manipulation", "WasteNot2", "TrainedPerfection"}

RefundSizes == {<<120, 20>>, <<I16Max, 70>>}

RefundSettings ==
    {[NormalSettings EXCEPT
        !.max_cp = size[1], !.max_durability = size[2],
        !.allowed_actions = {"BasicSynthesis", "BasicTouch", "MasterMend", "WasteNot"} \cup m] :
        m \in SUBSET RefundUnlocks, size \in RefundSizes}

\* The states of a craft the refund is computed for; an effect is active only
\* when its action is unlocked.
RefundStates(st) ==
    {[cp |-> cp, durability |-> d, progress |-> 50, unreliable_quality |-> <<100, 100>>,
      effects |-> [DefaultEffects EXCEPT !.manipulation = m, !.waste_not = w,
                                         !.trained_perfection = t],
      combo |-> "None"] :
        cp \in {0, 24, st.max_cp}, d \in {5, 10, 20, st.max_durability},
        m \in IF "Manipulation" \in st.allowed_actions THEN {0, 2} ELSE {0},
        w \in {0, 3},
        t \in IF "TrainedPerfection" \in st.allowed_actions
              THEN {"Available", "Active", "Unavailable"} ELSE {"Available"}}

RefundIdle == refund = << >>

QubRefundInit ==
    /\ settings \in RefundSettings
    /\ build \in {"release", "debug"}
    /\ sim \in RefundStates(settings)
    /\ solved = EmptyMap
    /\ ub = -1
    /\ query = NoQuery
    /\ hist = NoHistory
    /\ ustatus = "ok"
    /\ solver = <<QualityUpperBoundSolverNew(settings)>>

\* The first lines of quality_upper_bound, up to the call of from_state: a
\* sum that overflows panics in a debug build and wraps in a release build.
Refund ==
    /\ refund = << >>
    /\ ustatus = "ok"
    /\ IF RefundOverflows(sim, settings) /\ build = "debug"
       THEN ustatus' = "panicked" /\ refund' = refund
       ELSE ustatus' = ustatus /\ refund' = <<RefundedState(sim, settings)>>
    /\ UNCHANGED <<settings, build, sim, solved, ub, query, hist, solver>>
    /\ UNCHANGED <<qvars, wvars, gvars, svars, bvars, dvars, tvars>>

(***************************************************************************)
(* SearchTrace (search_queue.rs)                                           *)
(***************************************************************************)
\* The action sequences a search step applies (ActionSequence::actions()).
ActionSequences ==
    {<<"BasicSynthesis">>, <<"BasicTouch", "StandardTouch">>, <<"MasterMend">>}

\* The root of the search: SearchNode { trace: None }
RootNode == [trace |-> << >>]

\* SearchTrace::do_trace: the actions of this step pushed in reverse, then
\* those of the parent's trace.
RECURSIVE DoTrace(_, _)
DoTrace(trace, actions) ==
    IF trace.parent.trace # << >>
    THEN DoTrace(trace.parent.trace[1], actions \o Reverse(trace.action))
    ELSE actions \o Reverse(trace.action)

\* An actions() that leaves out the final reverse.
SearchTraceActionsUnreversed(trace) == DoTrace(trace, << >>)

\* SearchTrace::actions
SearchTraceActions(trace) == Reverse(DoTrace(trace, << >>))

TraceInit ==
    /\ tnode = RootNode
    /\ ttaken = << >>
    /\ tout = << >>

\* A search step: a node whose trace points at the node at hand.
Expand(action) ==
    /\ Len(ttaken) < MaxTraceDepth
    /\ tnode' = [trace |-> <<[parent |-> tnode, action |-> action]>>]
    /\ ttaken' = Append(ttaken, action)
    /\ tout' = << >>

\* trace.actions() on the node at hand
TraceActions ==
    /\ tnode.trace # << >>
    /\ tout' = <<SearchTraceActions(tnode.trace[1])>>
    /\ UNCHANGED <<tnode, ttaken>>

(***************************************************************************)
(* Specifications                                                          *)
(***************************************************************************)
OtherPartsIdle ==
    GuiInit /\ ScoreInit /\ ArenaInit /\ GameDataIdle /\ RefundIdle /\ TraceInit
OthersIdle == OtherPartsIdle /\ LongArenaIdle

Init == QueueInit /\ WorkerInit /\ QubIdle /\ OthersIdle

QueueNext == PushAny \/ PopAny

IntermediateSolution == (\E a \in ActionLists : SolutionCallback(a)) /\ UNCHANGED <<qvars, uvars, xvars>>
Progress == ProgressCallback /\ UNCHANGED <<qvars, uvars, xvars>>
FinalSolution ==
    /\ \E r \in {<< >>} \cup {<<a>> : a \in ActionLists} : SolveReturns(r)
    /\ UNCHANGED <<qvars, uvars, xvars>>
Receive == Recv /\ UNCHANGED <<qvars, uvars, xvars>>
Drop == DropReceiver /\ UNCHANGED <<qvars, uvars, xvars>>

\* The widgets of the GUI: the fields of the configuration, the buttons of the
\* recipes and the Solve button.
EditConfiguration ==
    /\ ConfigurationEdited
    /\ UNCHANGED <<qvars, wvars, uvars, svars, bvars, rvars, tvars>>
SelectRecipe ==
    /\ \E recipe \in Recipes : RecipeClicked(recipe)
    /\ UNCHANGED <<qvars, wvars, uvars, svars, bvars, rvars, tvars>>
Solve ==
    /\ \E r \in SolveResults : SolveClicked(r)
    /\ UNCHANGED <<qvars, wvars, uvars, svars, bvars, rvars, tvars>>

GuiNext == EditConfiguration \/ SelectRecipe \/ Solve
SpecGui == Init /\ [][GuiNext]_vars

WorkerNext ==
    IntermediateSolution \/ Progress \/ FinalSolution \/ Receive \/ Drop

SpecQueue == Init /\ [][QueueNext]_vars
SpecWorker == Init /\ [][WorkerNext]_vars
InitQub == QueueInit /\ WorkerInit /\ QubInit /\ OthersIdle
SpecQub == InitQub /\ [][QubNext]_vars

\* The solver on a recipe whose fronts reach (max_progress, 2 * max_quality).
InitSmallRecipe == QueueInit /\ WorkerInit /\ SmallRecipeInit /\ OthersIdle
SpecSmallRecipe == InitSmallRecipe /\ [][QubNext]_vars

\* One solver queried for several states in turn.
ReuseNext == QueryInitial \/ QueryAnother
SpecReuse == InitQub /\ [][ReuseNext]_vars

\* The construction of the QUB solver.
InitNew == QueueInit /\ WorkerInit /\ QubUnbuilt /\ OthersIdle
SpecNew == InitNew /\ [][New]_vars

\* Scores are made, compared and tested for similarity.
MakeScore ==
    /\ \E q \in RawQualities, d \in ScoreDurations, n \in ScoreSteps, st \in ScoreSettings :
          NewScore(q, d, n, st)
    /\ UNCHANGED <<qvars, wvars, uvars, gvars, bvars, dvars, rvars, tvars>>
Compare == CompareScores /\ UNCHANGED <<qvars, wvars, uvars, gvars, bvars, dvars, rvars, tvars>>
Similarity == SimilarScores /\ UNCHANGED <<qvars, wvars, uvars, gvars, bvars, dvars, rvars, tvars>>

ScoreNext == MakeScore \/ Compare \/ Similarity
SpecScore == Init /\ [][ScoreNext]_vars

\* Pushes and gets on one backtracking arena.
PushEntry ==
    /\ \E item \in ArenaItems, parent \in ArenaParents : ArenaPush(item, parent)
    /\ UNCHANGED <<qvars, wvars, uvars, gvars, svars, dvars, rvars, tvars>>
GetEntries ==
    /\ \E k \in 1..Len(arena.returned) : ArenaGet(arena.returned[k])
    /\ UNCHANGED <<qvars, wvars, uvars, gvars, svars, dvars, rvars, tvars>>

ArenaNext == PushEntry \/ GetEntries
SpecArena == Init /\ [][ArenaNext]_vars

\* Pushes on an arena that holds close to 2^32 entries.
InitLongArena == QueueInit /\ WorkerInit /\ QubIdle /\ OtherPartsIdle /\ LongArenaInit
SpecLongArena == InitLongArena /\ [][LongArenaPush]_vars

\* get_game_settings on the configurations of the GUI.
InitGameData ==
    /\ QueueInit /\ WorkerInit /\ QubIdle /\ GuiInit /\ ScoreInit /\ ArenaInit
    /\ GameDataInit /\ RefundIdle /\ TraceInit /\ LongArenaIdle
GetSettings == CallGetGameSettings /\ UNCHANGED <<qvars, wvars, uvars, gvars, svars, bvars, rvars, tvars>>
SpecGameData == InitGameData /\ [][GetSettings]_vars

\* The refund of quality_upper_bound on the states of a craft.
InitRefund == QueueInit /\ WorkerInit /\ QubRefundInit /\ OthersIdle
SpecRefund == InitRefund /\ [][Refund]_vars

\* Search steps and the actions of their traces.
ExpandNode ==
    /\ \E action \in ActionSequences : Expand(action)
    /\ UNCHANGED <<qvars, wvars, uvars, gvars, svars, bvars, dvars, rvars>>
GetActions ==
    /\ TraceActions
    /\ UNCHANGED <<qvars, wvars, uvars, gvars, svars, bvars, dvars, rvars>>

TraceNext == ExpandNode \/ GetActions
SpecTrace == Init /\ [][TraceNext]_vars

(***************************************************************************)
(* Claims about the search queue                                           *)
(***************************************************************************)
\* C5: for the same sequence of push and pop calls, pop hands out the same
\* node whatever order the drained bucket's hash map is iterated in.
C5_PopIndependentOfIterationOrder ==
    qstatus = "ok" =>
        \A o1, o2 \in IterationOrders :
            SearchQueuePop(queue, o1, 0).ret = SearchQueuePop(queue, o2, 0).ret

\* C6: the cp values of the nodes returned by successive pop calls are
\* non-increasing.
C6_PopCpNonIncreasing ==
    \A i, j \in 1..Len(returned) : i < j => returned[i].cp >= returned[j].cp

\* Two nodes of different cp were returned, the second one pushed after the
\* first pop.
C6_Witness ==
    /\ Len(returned) >= 2
    /\ returned[1].cp > returned[2].cp
    /\ returned[2].id > returned[1].id

\* C7: in every reachable state a push of a node whose cp is in 0..=max_cp
\* succeeds (no push panics), also into a bucket pop has already drained.
C7_PushInRangeSucceeds == qstatus # "panicked"

AllDrained(q) == q.current = << >> /\ q.buckets = << >>

SameKey(a, b) == ParetoKeyFrom(a) = ParetoKeyFrom(b)

\* Every pushed node was returned or was dominated by another pushed node of its key.
ReturnedOrDominated ==
    \A i \in 1..Len(pushed) :
        \/ \E j \in 1..Len(returned) : returned[j] = pushed[i]
        \/ \E k \in 1..Len(pushed) :
              k # i /\ SameKey(pushed[k], pushed[i]) /\ Dominate(pushed[k], pushed[i])

RECURSIVE SumLen(_, _)
SumLen(map, keys) ==
    IF keys = {} THEN 0
    ELSE LET k == CHOOSE x \in keys : TRUE
         IN Len(map[k]) + SumLen(map, keys \ {k})

RECURSIVE StoredIn(_, _)
StoredIn(buckets, i) ==
    IF i = 0 THEN 0
    ELSE SumLen(buckets[i], DOMAIN buckets[i]) + StoredIn(buckets, i - 1)

\* What is left to do for pop: the ready nodes, the stored nodes, the buckets.
PopMeasure(q) == Len(q.current) + StoredIn(q.buckets, Len(q.buckets)) + Len(q.buckets)

\* C8: pop returns None exactly when the ready-list is empty and every bucket
\* has been drained (a pop that finds a ready node returns it and drains
\* nothing); one call drains at most max_cp+1 buckets; every pop that returns
\* a node strictly decreases a natural-valued measure of the queue, so that
\* without further pushes finitely many pops reach None; and at that point
\* every retained node has been returned.
C8_PopNoneWhenDrained ==
    /\ [][PopAny =>
            /\ (lastPop' = << >>) <=> (AllDrained(queue') /\ returned' = returned)
            /\ queue.current # << >> =>
                  /\ lastPop' = <<queue.current[Len(queue.current)]>>
                  /\ queue'.buckets = queue.buckets
            /\ Len(queue.buckets) - Len(queue'.buckets) <= MaxCp + 1
            /\ lastPop' # << >> =>
                  /\ PopMeasure(queue') < PopMeasure(queue)
                  /\ PopMeasure(queue') >= 0
            /\ lastPop' = << >> => PopMeasure(queue') = 0]_vars
    /\ []((qstatus = "ok" /\ AllDrained(queue)) => ReturnedOrDominated)

\* Pop returned None after it had returned two nodes, one of them refused
\* nothing and one pushed node was dropped as dominated.
C8_Witness ==
    /\ qstatus = "ok"
    /\ lastPop = << >>
    /\ AllDrained(queue)
    /\ Len(returned) = 2
    /\ Len(pushed) = 3

(***************************************************************************)
(* Claims about the worker bridge                                          *)
(***************************************************************************)
FinalPositions == {i \in 1..Len(emitted) : emitted[i].type = "FinalSolution"}

\* C9: every solve emits exactly one FinalSolution event, after every Progress
\* and IntermediateSolution event, and nothing after it.
C9_ExactlyOneFinalSolutionLast ==
    /\ wpc = "solving" => FinalPositions = {}
    /\ wpc # "solving" => FinalPositions = {Len(emitted)}

\* C10: while the receiver is alive, the events received followed by the
\* events still in the channel are exactly the events emitted, in emission
\* order.
C10_DeliveredInEmissionOrder ==
    rxAlive => received \o chan = emitted

\* Two different events were received in order while a third is in flight.
C10_Witness ==
    /\ rxAlive
    /\ Len(received) = 2
    /\ received[1] # received[2]
    /\ Len(chan) = 1
    /\ chan[1].type = "FinalSolution"

(***************************************************************************)
(* Claims about the quality upper bound                                    *)
(***************************************************************************)
\* The indices of the entries of a front that reach the missing progress.
Reaching(front, missing) == {i \in 1..Len(front) : front[i].first >= missing}

\* The bound read off a front without searching: 0 when no entry reaches the
\* missing progress, else the capped sum for the reaching entry of smallest
\* first.
ReferenceLookup(front, missing, quality, st) ==
    IF Reaching(front, missing) = {} THEN 0
    ELSE LET e == CHOOSE i \in Reaching(front, missing) :
                      \A j \in Reaching(front, missing) : front[i].first <= front[j].first
         IN Min(MaxSecond(st), front[e].second + quality)

\* The largest second among the entries that reach the missing progress.
BestSecond(front, missing) ==
    CHOOSE v \in {front[i].second : i \in Reaching(front, missing)} :
        \A j \in Reaching(front, missing) : front[j].second <= v

\* C1 (admissibility): when a sequence of allowed actions ends with
\* progress >= max_progress, its final quality, capped at 2 * max_quality, is
\* at most the bound of every in-progress state the sequence went through.
C1_Admissible ==
    (sim.progress >= settings.max_progress /\ hist.lowest_ub >= 0)
        => Min(GetQuality(sim), MaxSecond(settings)) <= hist.lowest_ub

\* C2 (monotonicity): after a successful action, the bound of the parent is
\* at least the bound of a child that is not final, and at least the quality
\* of a final child with progress >= max_progress.
C2_Monotonic ==
    (hist.steps > 0 /\ ustatus = "ok")
        => IF IsFinal(sim, settings)
           THEN sim.progress >= settings.max_progress
                    => hist.parent_ub >= GetQuality(sim)
           ELSE hist.parent_ub >= ub

\* C3: the value quality_upper_bound returns is the reference lookup on the
\* memoised front of the reduced state: 0 when no entry has first >= missing,
\* else min(2 * max_quality, e.second + current_quality) for the entry e of
\* smallest first among those with first >= missing, which is also the one of
\* largest second among them.
C3_LookupMatchesReference ==
    /\ query.result = ReferenceLookup(query.front, query.missing, query.quality, settings)
    /\ Reaching(query.front, query.missing) # {}
         => query.result = Min(MaxSecond(settings),
                               BestSecond(query.front, query.missing) + query.quality)

\* A query answered from a front of two entries, the missing progress lying
\* strictly between their firsts.
C3_Witness ==
    /\ ustatus = "ok"
    /\ Len(query.front) >= 2
    /\ query.result > 0
    /\ \E i \in 1..(Len(query.front) - 1) :
          /\ query.front[i].first < query.missing
          /\ query.front[i + 1].first > query.missing

\* C4: the bound returned is at most 2 * max_quality (saturated at the 16-bit
\* maximum) and no addition that produced it wrapped around modulo 2^16.
C4_BoundCappedWithoutWrap ==
    /\ ~hist.wrapped
    /\ ub <= MaxSecond(settings)

(***************************************************************************)
(* Claims about the solve result and the dropped receiver                  *)
(***************************************************************************)
\* The list a solve result stands for: empty for None, the list of Some.
ListOf(final_solution) == IF final_solution = << >> THEN << >> ELSE final_solution[1]

\* C11: when solve returns None no error is raised: the worker emits
\* FinalSolution with an empty action list, and the GUI's Solve handler sets
\* its action list to empty; when solve returns Some(actions) the list
\* delivered is exactly that list.
C11_NoneIsEmptyFinalSolution ==
    /\ [][\A r \in SolveResults : SolveReturns(r) =>
            /\ wpc' = "done"
            /\ emitted' = Append(emitted, [type |-> "FinalSolution", actions |-> ListOf(r)])]_vars
    /\ [][\A r \in SolveResults : SolveClicked(r) => game_actions' = ListOf(r)]_vars

\* C12: the receiver may be dropped at any moment of a solve; no send made
\* after the drop aborts the worker with an error.
C12_DropNeverAbortsWorker == ~rxAlive => wpc # "panicked"

(***************************************************************************)
(* Claims about Score                                                      *)
(***************************************************************************)
\* The key of the lexicographic order: quality ascending, duration
\* descending, steps descending, quality_overflow ascending.
ScoreKey(s) == <<s.quality, 0 - s.duration, 0 - s.steps, s.quality_overflow>>

RECURSIVE LexCmp(_, _)
LexCmp(k1, k2) ==
    IF k1 = << >> THEN "Equal"
    ELSE IF Head(k1) < Head(k2) THEN "Less"
    ELSE IF Head(k1) > Head(k2) THEN "Greater"
    ELSE LexCmp(Tail(k1), Tail(k2))

CmpLeq(x, y) == score_out.r[x, y] \in {"Less", "Equal"}

\* C13: cmp is the lexicographic order on (quality ascending, duration
\* descending, steps descending, quality_overflow ascending); it is
\* reflexive, antisymmetric, transitive and total, and Equal exactly on
\* Scores that are equal field by field.
C13_ScoreOrderTotal ==
    score_out.op = "cmp" =>
        \A x, y, z \in ScoreNames :
            /\ score_out.r[x, y] = LexCmp(ScoreKey(scores[x]), ScoreKey(scores[y]))
            /\ CmpLeq(x, x)
            /\ (CmpLeq(x, y) /\ CmpLeq(y, x)) => scores[x] = scores[y]
            /\ (CmpLeq(x, y) /\ CmpLeq(y, z)) => CmpLeq(x, z)
            /\ CmpLeq(x, y) \/ CmpLeq(y, x)
            /\ (score_out.r[x, y] = "Equal") <=> (scores[x] = scores[y])

\* Three Scores of one quality were compared: a before b by its longer
\* duration, b before c by its larger number of steps.
C13_Witness ==
    /\ score_out.op = "cmp"
    /\ score_out.r["a", "b"] = "Less"
    /\ score_out.r["b", "c"] = "Less"
    /\ scores.a.quality = scores.c.quality
    /\ scores.a.duration > scores.b.duration
    /\ scores.b.duration = scores.c.duration
    /\ scores.b.steps > scores.c.steps

\* C14: Score::new(q, dur, steps, settings) has quality = min(q, max_quality)
\* and quality_overflow = max(0, q - max_quality): the two add up to q, the
\* overflow is positive only at quality = max_quality, and duration and
\* steps are stored unchanged.
C14_ScoreNewClamps ==
    score_out.op = "new" =>
        /\ score_out.score.quality = Min(score_out.quality, score_out.max_quality)
        /\ score_out.score.quality_overflow = Max(0, score_out.quality - score_out.max_quality)
        /\ score_out.score.quality + score_out.score.quality_overflow = score_out.quality
        /\ score_out.score.quality_overflow > 0 =>
              score_out.score.quality = score_out.max_quality
        /\ score_out.score.duration = score_out.duration
        /\ score_out.score.steps = score_out.steps

\* A Score was made from a quality above max_quality.
C14_Witness ==
    /\ score_out.op = "new"
    /\ score_out.quality > score_out.max_quality
    /\ score_out.score.quality_overflow > 0

\* The bits of v as an unsigned integer of `width` bits, highest first.
Bits(v, width) == [i \in 1..width |-> (v \div 2^(width - i)) % 2]

\* The packed key [quality:16 | duration:8 | steps:8 | overflow:16].
PackedKey(s) ==
    Bits(s.quality, 16) \o Bits(s.duration, 8) \o Bits(s.steps, 8)
        \o Bits(s.quality_overflow, 16)

\* The number of leading zero bits of the XOR of two keys.
LeadingZerosOfXor(k1, k2) ==
    IF \A i \in 1..Len(k1) : k1[i] = k2[i] THEN Len(k1)
    ELSE (CHOOSE i \in 1..Len(k1) :
              k1[i] # k2[i] /\ \A j \in 1..(i - 1) : k1[j] = k2[j]) - 1

\* C15: radix_similarity(a, b) is the number of leading zero bits of the XOR
\* of the 48-bit packed keys; it is symmetric, at most RADIX_BITS, and equal
\* to RADIX_BITS exactly when a = b.
C15_SimilarityIsLeadingZerosOfXor ==
    score_out.op = "sim" =>
        \A x, y \in ScoreNames :
            /\ score_out.r[x, y] =
                  LeadingZerosOfXor(PackedKey(scores[x]), PackedKey(scores[y]))
            /\ score_out.r[x, y] = score_out.r[y, x]
            /\ score_out.r[x, y] <= RADIX_BITS
            /\ (score_out.r[x, y] = RADIX_BITS) <=> (scores[x] = scores[y])

\* The similarity was taken of Scores that differ first in the duration, and
\* of Scores that differ in the overflow only.
C15_Witness ==
    /\ score_out.op = "sim"
    /\ score_out.r["a", "b"] \in 16..23
    /\ score_out.r["b", "c"] \in 32..47

\* C16: for Scores a <= b <= c in the Score order, radix_similarity(a, c) is
\* at most radix_similarity(a, b) and at most radix_similarity(b, c).
C16_SimilarityMonotoneInOrder ==
    score_out.op = "sim" =>
        \A x, y, z \in ScoreNames :
            (/\ ScoreCmp(scores[x], scores[y]) # "Greater"
             /\ ScoreCmp(scores[y], scores[z]) # "Greater") =>
                /\ score_out.r[x, z] <= score_out.r[x, y]
                /\ score_out.r[x, z] <= score_out.r[y, z]

\* Three Scores in strictly ascending order that share the quality and
\* differ in duration and steps, with a and c the least similar.
C16_Witness ==
    /\ score_out.op = "sim"
    /\ ScoreCmp(scores.a, scores.b) = "Less"
    /\ ScoreCmp(scores.b, scores.c) = "Less"
    /\ scores.a.quality = scores.c.quality
    /\ scores.a.duration > scores.c.duration
    /\ scores.a.steps # scores.b.steps
    /\ score_out.r["a", "c"] < score_out.r["b", "c"]

(***************************************************************************)
(* Claims about the backtracking arena                                     *)
(***************************************************************************)
\* C17: get(i) of a returned index i yields the items on the parent chain
\* from the root down to entry i in the order they were taken: the first
\* item is a root's, the last is entry i's.
C17_GetYieldsPathFromRoot ==
    arena.got.index # SENTINEL =>
        /\ arena.got.items = arena.taken[arena.got.index + 1]
        /\ Len(arena.got.items) >= 1
        /\ arena.got.items[Len(arena.got.items)] = entries[arena.got.index + 1].item
        /\ \E k \in 1..Len(entries) :
              entries[k].parent = SENTINEL /\ entries[k].item = arena.got.items[1]

\* get yielded a path of three entries whose items differ, in an arena that
\* also holds another branch.
C17_Witness ==
    /\ arena.got.index # SENTINEL
    /\ Len(arena.got.items) = 3
    /\ arena.got.items[1] # arena.got.items[3]
    /\ Len(entries) > 3

\* C18: push returns the number of entries present before the call, adds one
\* entry and changes no existing entry, so what get yields for an index
\* returned earlier is the same after later pushes; get does not modify the
\* arena.
C18_ArenaAppendOnly ==
    /\ [][PushEntry =>
            /\ Len(entries') = Len(entries) + 1
            /\ arena'.returned[Len(entries')] = Len(entries)
            /\ SubSeq(entries', 1, Len(entries)) = entries
            /\ \A k \in 1..Len(arena.returned) :
                  BacktrackingGet(entries', arena.returned[k])
                      = BacktrackingGet(entries, arena.returned[k])]_vars
    /\ [][GetEntries => entries' = entries]_vars
    /\ [](\A k \in 1..Len(arena.returned) :
              /\ arena.returned[k] = k - 1
              /\ BacktrackingGet(entries, arena.returned[k]) = arena.seen[k])

\* A chain of three entries whose paths were seen at their pushes, and get
\* has yielded the path of the first.
C18_Witness ==
    /\ Len(entries) >= 3
    /\ entries[2].parent = 0
    /\ entries[3].parent = 1
    /\ arena.got.index = 0
    /\ arena.seen[2] = BacktrackingGet(entries, 1)
    /\ Len(arena.seen[3]) = 3

(***************************************************************************)
(* Claims about the construction of the solver and the game settings       *)
(***************************************************************************)
\* C19: QualityUpperBoundSolver::new completes without failure for every
\* Settings with positive maxima and every allowed_actions mask.
C19_NewNeverFails == ustatus = "idle" \/ (ustatus = "ok" /\ solver # << >>)

\* C20: get_game_settings returns a Settings value for every job level in
\* 1..=100: the lookup in LEVELS is within the table.
C20_LevelLookupInTable ==
    game_settings.status # "none" =>
        /\ game_settings.status = "returned"
        /\ LevelInTable(crafter_config.job_level)

(***************************************************************************)
(* Claims about the fronts of the memo table                               *)
(***************************************************************************)
StrictlySorted(front) ==
    \A i \in 1..(Len(front) - 1) :
        front[i].first < front[i + 1].first /\ front[i].second > front[i + 1].second

NoValueDominated(front) ==
    \A i, j \in 1..Len(front) : i # j => ~ValueDominates(front[i], front[j])

\* C21: every front installed in the memo table is an antichain sorted by
\* first strictly ascending and second strictly descending: no element
\* dominates another and no two elements share the same first.
C21_MemoFrontsAreSortedAntichains ==
    \A k \in DOMAIN solved : StrictlySorted(solved[k]) /\ NoValueDominated(solved[k])

\* The table holds a front of two elements or more.
C21_Witness ==
    /\ ustatus = "ok"
    /\ \E k \in DOMAIN solved : Len(solved[k]) >= 2

\* C26: every element of every front of the memo table has first <=
\* max_progress and second <= 2 * max_quality, and no shift of a child's
\* front wraps around the 16-bit range.
C26_MemoFrontsWithinClamps ==
    /\ \A k \in DOMAIN solved : \A i \in 1..Len(solved[k]) :
          /\ solved[k][i].first <= MaxFirst(settings)
          /\ solved[k][i].second <= MaxSecond(settings)
    /\ hist.wrapped = FALSE

(***************************************************************************)
(* Claims about the fronts of the search queue                             *)
(***************************************************************************)
NoNodeDominated(front) ==
    \A p, q \in 1..Len(front) : p # q => ~Dominate(front[p], front[q])

\* The fronts of the buckets other than the one of (cp, key) are the same.
OtherFrontsKept(q1, q2, cp, key) ==
    \A i \in 1..Len(q1.buckets) : \A k \in DOMAIN q1.buckets[i] :
        (i # cp + 1 \/ k # key) =>
            k \in DOMAIN q2.buckets[i] /\ q2.buckets[i][k] = q1.buckets[i][k]

\* C22: within each bucket the nodes stored under one key form an antichain
\* under (progress, quality) dominance, equal pairs included, and a push
\* changes only the front of its own (cp, key).
C22_BucketFrontsAreAntichains ==
    /\ [](\A i \in 1..Len(queue.buckets) : \A k \in DOMAIN queue.buckets[i] :
              NoNodeDominated(queue.buckets[i][k]))
    /\ [][PushAny =>
            OtherFrontsKept(queue, queue', pushed'[Len(pushed')].cp,
                            ParetoKeyFrom(pushed'[Len(pushed')]))]_vars

\* A bucket holds two nodes under one key and a node under another key.
C22_Witness ==
    /\ qstatus = "ok"
    /\ \E i \in 1..Len(queue.buckets) : \E k1, k2 \in DOMAIN queue.buckets[i] :
          /\ k1 # k2
          /\ Len(queue.buckets[i][k1]) = 2
          /\ Len(queue.buckets[i][k2]) = 1

\* The nodes a pop made ready: in the ready-list or returned, and not ready before.
NewlyReady(q1, q2, ret) == (Range(q2.current) \cup Range(ret)) \ Range(q1.current)

\* C23: a node becomes ready only if its (progress, quality) is not dominated
\* by a value in the global front of its key; no node returned by pop is
\* dominated by a node of the same key returned earlier; the global front of
\* every key is an antichain.
C23_GlobalDeduplication ==
    /\ [](\A k \in DOMAIN queue.pareto_front : NoNodeDominated(queue.pareto_front[k]))
    /\ [](\A i, j \in 1..Len(returned) :
              (i < j /\ SameKey(returned[i], returned[j])) =>
                  ~Dominate(returned[i], returned[j]))
    /\ [][PopAny =>
            \A n \in NewlyReady(queue, queue', lastPop') :
                \A v \in Range(OrDefault(queue.pareto_front, ParetoKeyFrom(n))) :
                    ~Dominate(v, n)]_vars

\* Two nodes of one key were returned from different buckets, and a third
\* node of the lower bucket was refused by the global front alone.
C23_Witness ==
    /\ AllDrained(queue)
    /\ Len(returned) = 2
    /\ SameKey(returned[1], returned[2])
    /\ returned[1].cp > returned[2].cp
    /\ \E i \in 1..Len(pushed) :
          /\ pushed[i] \notin Range(returned)
          /\ SameKey(pushed[i], returned[1])
          /\ pushed[i].cp = returned[2].cp
          /\ Dominate(returned[1], pushed[i])
          /\ ~Dominate(returned[2], pushed[i])

\* C28: when pop has returned None, every pushed node was returned exactly
\* once or another pushed node of its key with cp >= its cp, progress >= and
\* quality >= its own was pushed; no node is returned twice and none that was
\* never pushed.
C28_NoUsefulNodeLost ==
    /\ \A j1, j2 \in 1..Len(returned) : j1 # j2 => returned[j1] # returned[j2]
    /\ \A j \in 1..Len(returned) : returned[j] \in Range(pushed)
    /\ (qstatus = "ok" /\ AllDrained(queue)) =>
          \A i \in 1..Len(pushed) :
              \/ Cardinality({j \in 1..Len(returned) : returned[j] = pushed[i]}) = 1
              \/ \E k \in 1..Len(pushed) :
                    /\ k # i
                    /\ SameKey(pushed[k], pushed[i])
                    /\ pushed[k].cp >= pushed[i].cp
                    /\ Dominate(pushed[k], pushed[i])

\* Pop returned None after one node: the two others, of lower cp, were
\* dominated by it.
C28_Witness ==
    /\ qstatus = "ok"
    /\ AllDrained(queue)
    /\ Len(pushed) = 3
    /\ Len(returned) = 1
    /\ \A i \in 1..Len(pushed) :
          pushed[i] # returned[1] => pushed[i].cp < returned[1].cp

(***************************************************************************)
(* Claims about the refund and the costs of the solver                     *)
(***************************************************************************)
\* The token of Trained Perfection is credited.
TokenCredited(state, st) ==
    /\ state.effects.trained_perfection # "Unavailable"
    /\ "TrainedPerfection" \in st.allowed_actions

\* C24: the state handed to from_state has cp = s.cp + manipulation *
\* (Manipulation.cp / 8) + waste_not * waste_not_cost + (s.durability / 5) *
\* base_durability_cost, plus 4 * base_durability_cost exactly when
\* trained_perfection is not Unavailable and TrainedPerfection is allowed;
\* its durability is i8::MAX, its token Unavailable in that case, and every
\* other field is unchanged.
C24_RefundCreditsOnce ==
    refund # << >> =>
        /\ refund[1].cp =
              sim.cp + sim.effects.manipulation * (CpCost("Manipulation") \div 8)
                     + sim.effects.waste_not * solver[1].waste_not_cost
                     + (sim.durability \div 5) * solver[1].base_durability_cost
                     + (IF TokenCredited(sim, settings)
                        THEN 4 * solver[1].base_durability_cost ELSE 0)
        /\ refund[1].durability = I8Max
        /\ refund[1].effects.trained_perfection =
              IF TokenCredited(sim, settings) THEN "Unavailable"
              ELSE sim.effects.trained_perfection
        /\ \A f \in DOMAIN sim.effects \ {"trained_perfection"} :
              refund[1].effects[f] = sim.effects[f]
        /\ refund[1].progress = sim.progress
        /\ refund[1].unreliable_quality = sim.unreliable_quality
        /\ refund[1].combo = sim.combo

\* The costs per 5 durability of the repair actions that are available.
RepairCosts(st) ==
    {CpCost("MasterMend") \div 6}
        \cup (IF "Manipulation" \in st.allowed_actions
              THEN {CpCost("Manipulation") \div 8} ELSE {})
        \cup (IF "ImmaculateMend" \in st.allowed_actions
              THEN {CpCost("ImmaculateMend") \div (st.max_durability \div 5 - 1)} ELSE {})

\* C25: base_durability_cost is the minimum of MasterMend.cp/6, of
\* Manipulation.cp/8 if Manipulation is allowed and of ImmaculateMend.cp /
\* (max_durability/5 - 1) if ImmaculateMend is allowed; waste_not_cost is
\* WasteNot2.cp/8 if WasteNot2 is allowed and WasteNot.cp/4 otherwise.
C25_CostsAreMinima ==
    solver # << >> =>
        /\ solver[1].base_durability_cost \in RepairCosts(settings)
        /\ \A c \in RepairCosts(settings) : solver[1].base_durability_cost <= c
        /\ solver[1].waste_not_cost =
              IF "WasteNot2" \in settings.allowed_actions
              THEN CpCost("WasteNot2") \div 8 ELSE CpCost("WasteNot") \div 4

\* A solver was built for which Immaculate Mend is the cheapest repair.
C25_Witness ==
    /\ solver # << >>
    /\ "ImmaculateMend" \in settings.allowed_actions
    /\ "Manipulation" \in settings.allowed_actions
    /\ "WasteNot2" \in settings.allowed_actions
    /\ solver[1].base_durability_cost > 0
    /\ solver[1].base_durability_cost < CpCost("Manipulation") \div 8

(***************************************************************************)
(* Claims about SearchTrace                                                *)
(***************************************************************************)
RECURSIVE Concat(_)
Concat(seqs) == IF seqs = << >> THEN << >> ELSE Head(seqs) \o Concat(Tail(seqs))

\* C27: SearchTrace::actions returns the concatenation A1 ++ A2 ++ ... ++ Ak
\* of the action sequences applied from the root, the actions inside each in
\* their original order; the root contributes nothing.
C27_TraceActionsInOrder ==
    tout # << >> => tout[1] = Concat(ttaken)

\* The actions of a node three steps from the root, the first step of two
\* actions.
C27_Witness ==
    /\ tout # << >>
    /\ Len(ttaken) = 3
    /\ Len(ttaken[1]) = 2
    /\ ttaken[2] # ttaken[1]
    /\ ttaken[3] # ttaken[2]

(***************************************************************************)
(* Claims about the recursion of solve_state and the memo table            *)
(***************************************************************************)
\* C29: every call of solve_state returns; along a chain of nested calls the
\* reduced states are pairwise distinct, every state recursed into has less
\* cp than its parent, and the depth is bounded by the number of states solved.
C29_SolveStateTerminates ==
    /\ hist.calls.returned
    /\ hist.calls.distinct
    /\ hist.calls.descending
    /\ hist.calls.depth <= Cardinality(DOMAIN solved)

RECURSIVE VisitedIndices(_, _)
VisitedIndices(es, index) ==
    IF index = SENTINEL THEN << >>
    ELSE <<index>> \o VisitedIndices(es, es[index + 1].parent)

StrictlyDecreasing(indices) ==
    \A k \in 1..(Len(indices) - 1) : indices[k] > indices[k + 1]

\* C34: when every push was given SENTINEL or an index an earlier push
\* returned as parent, get(i) terminates for every index i returned by push:
\* the indices visited are strictly decreasing, every one of them is within
\* the arena, and the path has at most i + 1 items.
C34_GetWalksDownwards ==
    \A k \in 1..Len(arena.returned) :
        LET i == arena.returned[k]
            visited == VisitedIndices(entries, i)
        IN /\ StrictlyDecreasing(visited)
           /\ \A j \in 1..Len(visited) : visited[j] >= 0 /\ visited[j] < Len(entries)
           /\ Len(BacktrackingGet(entries, i)) = Len(visited)
           /\ Len(BacktrackingGet(entries, i)) <= i + 1

\* get was called on the last of four entries, and its walk skipped entries.
C34_Witness ==
    /\ Len(entries) = 4
    /\ arena.got.index = 3
    /\ Len(arena.got.items) = 2
    /\ VisitedIndices(entries, 3) = <<3, 1>>

(***************************************************************************)
(* Claims about the index of Backtracking::push                            *)
(***************************************************************************)
\* The position of the last entry of an arena of len entries, in halves.
LastPosition(len) == IF len[2] = 0 THEN <<len[1] - 1, Half - 1>> ELSE <<len[1], len[2] - 1>>

\* C33: every index returned by push, computed in 32-bit arithmetic, is
\* different from SENTINEL and is the position of the entry just pushed
\* (hence different from every index returned earlier), for any number of
\* pushes.
C33_IndexIdentifiesEntry ==
    larena.index # << >> =>
        /\ larena.index[1] # SentinelHalves
        /\ larena.index[1] = LastPosition(larena.len)

(***************************************************************************)
(* Claims about the history of the solver                                  *)
(***************************************************************************)
\* The front a freshly constructed solver installs for a reduced state.
FreshFront(st, reduced_state) ==
    SolveIfAbsent(st, EmptyMap, reduced_state).solved[reduced_state]

\* The value the solver at hand returns when the last query is repeated.
RepeatedResult ==
    LookupFront(SolveIfAbsent(settings, solved, query.key[1]).solved[query.key[1]],
                query.missing, query.quality, settings)

\* C31: quality_upper_bound does not depend on the query history: a solver
\* that has answered earlier queries returns the value a freshly constructed
\* solver returns, repeating a query returns the same value, and the front
\* memoised for a reduced state is the one a fresh solver builds for it.
C31_HistoryIndependent ==
    /\ \A k \in DOMAIN solved : solved[k] = FreshFront(settings, k)
    /\ query.key # << >> =>
          /\ query.result = LookupFront(FreshFront(settings, query.key[1]),
                                        query.missing, query.quality, settings)
          /\ query.result = RepeatedResult

\* A later query solved its state with the front of a child that an earlier
\* query had left in the table.
C31_Witness ==
    /\ ustatus = "ok"
    /\ hist.steps >= 1
    /\ query.key # << >>
    /\ query.reused
    /\ query.depth >= 1
    /\ query.result > 0
    /\ Len(query.front) >= 2

(***************************************************************************)
(* Claims about the early exit of solve_state                              *)
(***************************************************************************)
\* The loop of solve_state without the break.
RECURSIVE SolveAllActions(_, _, _, _)
SolveAllActions(st, sv, state, actions) ==
    IF actions = << >> THEN sv
    ELSE SolveAllActions(st, BuildChildFront(st, sv, state, Head(actions)),
                         state, Tail(actions))

\* The front solve_state would install for `state` had its loop gone through
\* every action.
FullFront(st, memo, state) ==
    BuilderPeek(SolveAllActions(st, EnterSolveState(NewSolverState(memo), state),
                                state, SearchActionSeq(st)).stack)

\* The actions the loop of solve_state has not gone through when it ends.
RECURSIVE ActionsLeft(_, _, _, _)
ActionsLeft(st, sv, state, actions) ==
    CASE actions = << >> -> << >>
      [] actions # << >> /\ BuilderIsMax(sv.stack, MaxFirst(st), MaxSecond(st)) -> actions
      [] OTHER -> ActionsLeft(st, BuildChildFront(st, sv, state, Head(actions)),
                              state, Tail(actions))

SkippedActions(st, memo, state) ==
    ActionsLeft(st, EnterSolveState(NewSolverState(memo), state), state,
                SearchActionSeq(st))

\* C32: the early exit of solve_state is sound: the front installed in the
\* memo table, also when the loop stopped at the single element
\* (max_progress, 2 * max_quality), is the front the loop would have left had
\* it gone through all the remaining actions.
C32_EarlyExitSound ==
    \A k \in DOMAIN solved : solved[k] = FullFront(settings, solved, k)

\* The loop stopped at the maximal front before an action that the state can
\* use.
C32_Witness ==
    /\ ustatus = "ok"
    /\ \E k \in DOMAIN solved :
          /\ solved[k] = <<ParetoValueNew(MaxFirst(settings), MaxSecond(settings))>>
          /\ \E i \in 1..Len(SkippedActions(settings, solved, k)) :
                UseAction(StateFromReduced(k),
                          SkippedActions(settings, solved, k)[i], settings).ok
====
